---- MODULE Spec2Model ----
(***************************************************************************)
(* A model of src/writer.rs of ucd-generate: the WriterBuilder, the Writer *)
(* (the table emitter), its LineWriter (the line-wrapping sink) and the    *)
(* pure helpers pack_str, smallest_unsigned_type and rust_type_name.       *)
(*                                                                         *)
(* Specifications:                                                         *)
(*   Spec       the builder and one Writer made from it: sequences of      *)
(*              calls, each on a small input                               *)
(*   SpecTables the builder and one Writer made from it: one call, on      *)
(*              every input of the universe                                *)
(*   SpecLine   one LineWriter and the operations on it                    *)
(*   SpecPack   pack_str and the tests' unpack_str                         *)
(*   SpecWidth  smallest_unsigned_type                                     *)
(*   SpecName   rust_type_name                                             *)
(*   SpecKey    u32_key                                                    *)
(*                                                                         *)
(* The sink is an in-memory writer: every write to it succeeds.  It is     *)
(* append-only and never read back, so Spec keeps the block structure of   *)
(* everything written (sink) and the full items of the last call (out).    *)
(***************************************************************************)
EXTENDS Integers, Sequences, FiniteSets, TLC

VARIABLES
    \* ---- Spec: builder and Writer
    pc,            \* "builder" | "writer" | "aborted"
    opts,          \* WriterOptions
    wrote_header,  \* Writer.wrote_header
    wtr,           \* Writer.wtr: the LineWriter's fields line, columns, indent
    sink,          \* what the sink holds, as blocks: "header" | "table"
    out,           \* the items the last call appended to the sink
    files,         \* blob files created with File::create
    creates,       \* number of File::create calls so far
    call,          \* the last emission call and its arguments
    res,           \* its result: "ok" or the error
    ncalls,        \* emission calls made
    scope,         \* "calls": sequences of calls on small inputs;
                   \* "tables": one call on the full input universe
    \* ---- SpecLine: one LineWriter
    lw,            \* its fields [line, columns, indent]
    lsink,         \* the items written to the inner sink, in order
    lops,          \* operations made
    lhist,         \* the operations made, in order, with their arguments
    \* ---- SpecPack
    ps,            \* the input string, a sequence of bytes
    packed,        \* pack_str's result
    unpacked,      \* unpack_str's result, the chars pushed onto the String
    \* ---- SpecWidth
    wn,            \* two inputs <<n, m>>
    wty,           \* their types
    \* ---- SpecName
    tn,            \* the input string, a sequence of chars
    tname,         \* rust_type_name's result
    \* ---- SpecKey
    kn,            \* the input, a set of codepoints
    kkeys          \* u32_key of each of them

writerVars == <<pc, opts, wrote_header, wtr, sink, out, files, creates, call, res, ncalls, scope>>
lineVars == <<lw, lsink, lops, lhist>>
packVars == <<ps, packed, unpacked>>
widthVars == <<wn, wty>>
nameVars == <<tn, tname>>
keyVars == <<kn, kkeys>>
vars == <<writerVars, lineVars, packVars, widthVars, nameVars, keyVars>>

(***************************************************************************)
(* Bounds of the model.                                                    *)
(***************************************************************************)
MaxCalls == 2      \* emission calls on one Writer in Spec
NLow == 3          \* the codepoints 0 .. NLow-1 are in the universe
MaxMapKeys == 2    \* entries of a codepoint map
SmallColumns == 20 \* the builder's columns(n) is tried with this n
MaxLineOps == 4    \* operations on the LineWriter of SpecLine
MaxStrLen == 9     \* bytes of a string given to pack_str
MaxNameLen == 3    \* chars of a string given to rust_type_name
Margin == 2        \* smallest_unsigned_type and u32_key are tried Margin around each limit

(***************************************************************************)
(* Numbers.  TLC's integers are 32 bits wide and signed, so a u32 or u64   *)
(* is kept as its 16-bit limbs, most significant first: a u32 is           *)
(* <<hi, lo>>, a u64 is <<l3, l2, l1, l0>>.                                *)
(***************************************************************************)
Limb == 256 * 256

\* The u32 / u64 of a number below 2^31.
U32(n) == <<n \div Limb, n % Limb>>
U64(n) == <<0, 0, n \div Limb, n % Limb>>
\* `x as u64` of a u32
AsU64(x) == <<0, 0>> \o x

U32Max == <<Limb - 1, Limb - 1>>
U64Max == <<Limb - 1, Limb - 1, Limb - 1, Limb - 1>>

RECURSIVE LexLess(_, _)
\* Lexicographic order of two sequences of numbers: the order of two limb
\* numbers of one width, and of the byte strings that are an fst's keys.
LexLess(a, b) ==
    IF b = <<>> THEN FALSE
    ELSE IF a = <<>> THEN TRUE
    ELSE IF Head(a) # Head(b) THEN Head(a) < Head(b)
    ELSE LexLess(Tail(a), Tail(b))

Lt(a, b) == LexLess(a, b)
Le(a, b) == a = b \/ LexLess(a, b)

RECURSIVE Succ(_)
\* a + 1, wrapping at the width of a
Succ(a) ==
    IF a = <<>> THEN <<>>
    ELSE LET n == Len(a)
         IN IF a[n] < Limb - 1 THEN [a EXCEPT ![n] = @ + 1]
            ELSE Succ(SubSeq(a, 1, n - 1)) \o <<0>>

\* !a, the bitwise complement
Not(a) == [i \in 1 .. Len(a) |-> (Limb - 1) - a[i]]

IsZero(a) == \A i \in 1 .. Len(a) : a[i] = 0

RECURSIVE DivSmall(_, _, _)
\* <<a \div d, a % d>> for a small divisor d, with carry r coming in
DivSmall(a, d, r) ==
    IF a = <<>> THEN <<<<>>, r>>
    ELSE LET cur == (r * Limb) + Head(a)
             rest == DivSmall(Tail(a), d, cur % d)
         IN <<<<cur \div d>> \o rest[1], rest[2]>>

RECURSIVE Pred(_)
\* a - 1, wrapping at the width of a
Pred(a) ==
    IF a = <<>> THEN <<>>
    ELSE LET n == Len(a)
         IN IF a[n] > 0 THEN [a EXCEPT ![n] = @ - 1]
            ELSE Pred(SubSeq(a, 1, n - 1)) \o <<Limb - 1>>

RECURSIVE BitOr(_, _, _)
\* x | y of two numbers of n bits
BitOr(x, y, n) ==
    IF n = 0 THEN 0
    ELSE (IF x % 2 = 1 \/ y % 2 = 1 THEN 1 ELSE 0) + 2 * BitOr(x \div 2, y \div 2, n - 1)

\* a | b
Or(a, b) == [i \in 1 .. Len(a) |-> BitOr(a[i], b[i], 16)]

\* a << 8, the bits shifted out at the top lost
Shl8(a) ==
    [i \in 1 .. Len(a) |->
        ((a[i] % 256) * 256) + (IF i < Len(a) THEN a[i + 1] \div 256 ELSE 0)]

RECURSIVE Shl(_, _)
\* a << (8 * k)
Shl(a, k) == IF k = 0 THEN a ELSE Shl(Shl8(a), k - 1)

\* a >> 8
Shr8(a) ==
    [i \in 1 .. Len(a) |->
        (IF i > 1 THEN (a[i - 1] % 256) * 256 ELSE 0) + (a[i] \div 256)]

RECURSIVE Shr(_, _)
\* a >> (8 * k)
Shr(a, k) == IF k = 0 THEN a ELSE Shr(Shr8(a), k - 1)

\* (a & 0xFF) as u8
Low8(a) == a[Len(a)] % 256

Max(S) == CHOOSE x \in S : \A y \in S : Le(y, x)
Min(S) == CHOOSE x \in S : \A y \in S : Le(x, y)

\* The elements of a set of numbers in increasing order: the iteration order
\* of a BTreeSet / of a BTreeMap's keys.
RECURSIVE Sorted(_)
Sorted(S) == IF S = {} THEN <<>> ELSE <<Min(S)>> \o Sorted(S \ {Min(S)})

\* Codepoints: any u32.  The universe holds low values, the last scalar value
\* before the surrogates and the first surrogate, and the all-ones value.
Codepoints == {U32(n) : n \in 0 .. (NLow - 1)} \cup {U32(55295), U32(55296), U32Max}

\* Values of a codepoint -> u64 map, one or two per integer type.
Values == {U64(255), U64(256), U64(65536), <<0, 1, 0, 0>>}

\* The codepoint maps of the model: functions on at most MaxMapKeys keys.
SmallSets(U) == {S \in SUBSET U : Cardinality(S) <= MaxMapKeys}
MapKeys == {U32(0), U32(1), U32(55295), U32(55296), U32Max}
MapsTo(V) == UNION {[S -> V] : S \in SmallSets(MapKeys)}

(***************************************************************************)
(* pack_str, and unpack_str of the tests.  A &str is the sequence of its   *)
(* bytes; a result is Ok(v), Err(e) or a panic.                            *)
(***************************************************************************)
Ok(v) == [k |-> "ok", e |-> "", v |-> v]
Err(e) == [k |-> "err", e |-> e, v |-> U64(0)]
Panic(e) == [k |-> "panic", e |-> e, v |-> U64(0)]

\* s.contains('\x00')
ContainsNul(s) == \E i \in 1 .. Len(s) : s[i] = 0

RECURSIVE pack_loop(_, _, _)
\* the loop of pack_str from index i on: assert!(i <= 7), then
\* value |= (b as u64) << (8 * i)
pack_loop(s, i, value) ==
    IF i >= Len(s) THEN Ok(value)
    ELSE IF ~(i <= 7) THEN Panic("assertion failed: i <= 7")
    ELSE pack_loop(s, i + 1, Or(value, Shl(U64(s[i + 1]), i)))

RECURSIVE pack_loop_msb_first(_, _, _)
\* a loop that puts byte 0 of s at the most significant end
pack_loop_msb_first(s, i, value) ==
    IF i >= Len(s) THEN Ok(value)
    ELSE pack_loop_msb_first(s, i + 1, Or(Shl8(value), U64(s[i + 1])))

\* pack_str with the first byte most significant
pack_str_msb_first(s) ==
    IF Len(s) > 8 THEN Err("too long")
    ELSE IF ContainsNul(s) THEN Err("contains NUL byte")
    ELSE pack_loop_msb_first(s, 0, U64(0))

\* pack_str with the length check one byte off
pack_str_9_bytes(s) ==
    IF Len(s) > 9 THEN Err("too long")
    ELSE IF ContainsNul(s) THEN Err("contains NUL byte")
    ELSE pack_loop(s, 0, U64(0))

\* pack_str
pack_str(s) ==
    IF Len(s) > 8 THEN Err("too long")
    ELSE IF ContainsNul(s) THEN Err("contains NUL byte")
    ELSE pack_loop(s, 0, U64(0))

RECURSIVE unpack_str(_)
\* tests::unpack_str: the chars pushed onto the String, each
\* (encoded & 0xFF) as u8 as char, until encoded is 0
unpack_str(encoded) ==
    IF IsZero(encoded) THEN <<>>
    ELSE <<Low8(encoded)>> \o unpack_str(Shr8(encoded))

RECURSIVE as_bytes(_)
\* String::as_bytes of a String of chars below U+0100: the UTF-8 encoding
as_bytes(chars) ==
    IF chars = <<>> THEN <<>>
    ELSE (IF Head(chars) < 128 THEN <<Head(chars)>>
          ELSE <<192 + (Head(chars) \div 64), 128 + (Head(chars) % 64)>>)
         \o as_bytes(Tail(chars))

(***************************************************************************)
(* Text.  A string is a sequence of characters, a character a string of    *)
(* length one: "ab" is <<"a", "b">>.                                       *)
(***************************************************************************)
RECURSIVE IndexIn(_, _, _)
\* The position of character c in alphabet from position i on, 0 when absent.
IndexIn(c, alphabet, i) ==
    IF i > Len(alphabet) THEN 0
    ELSE IF alphabet[i] = c THEN i ELSE IndexIn(c, alphabet, i + 1)

Lowers == <<"a", "b", "c", "d", "e", "f", "g", "h", "i", "j", "k", "l", "m",
            "n", "o", "p", "q", "r", "s", "t", "u", "v", "w", "x", "y", "z">>
Uppers == <<"A", "B", "C", "D", "E", "F", "G", "H", "I", "J", "K", "L", "M",
            "N", "O", "P", "Q", "R", "S", "T", "U", "V", "W", "X", "Y", "Z">>
Digits == <<"0", "1", "2", "3", "4", "5", "6", "7", "8", "9",
            "a", "b", "c", "d", "e", "f">>

\* u8::to_ascii_uppercase / to_ascii_lowercase on one character.
to_ascii_uppercase(c) ==
    LET i == IndexIn(c, Lowers, 1) IN IF i = 0 THEN c ELSE Uppers[i]
to_ascii_lowercase(c) ==
    LET i == IndexIn(c, Uppers, 1) IN IF i = 0 THEN c ELSE Lowers[i]

make_ascii_uppercase(s) == [i \in 1 .. Len(s) |-> to_ascii_uppercase(s[i])]
make_ascii_lowercase(s) == [i \in 1 .. Len(s) |-> to_ascii_lowercase(s[i])]

\* str::replace of one character by another
replace(s, from, to) == [i \in 1 .. Len(s) |-> IF s[i] = from THEN to ELSE s[i]]

\* format!("{}", n) of an unsigned integer: its decimal digits.
RECURSIVE Dec(_)
Dec(a) == LET qr == DivSmall(a, 10, 0)
          IN (IF IsZero(qr[1]) THEN <<>> ELSE Dec(qr[1])) \o <<Digits[qr[2] + 1]>>

\* format!("{:x}", n): lower-case hexadecimal digits.
RECURSIVE Hex(_)
Hex(a) == LET qr == DivSmall(a, 16, 0)
          IN (IF IsZero(qr[1]) THEN <<>> ELSE Hex(qr[1])) \o <<Digits[qr[2] + 1]>>

\* rust_const_name: '.' becomes '_', then ASCII upper case.
rust_const_name(s) == make_ascii_uppercase(replace(s, ".", "_"))

\* rust_module_name: ASCII lower case.
rust_module_name(s) == make_ascii_lowercase(s)

(***************************************************************************)
(* rust_type_name.  Here a string is the sequence of its chars and a char  *)
(* is its code point, below U+0100.                                        *)
(***************************************************************************)
\* char::is_ascii_uppercase, char::is_ascii_digit
is_ascii_uppercase(c) == 65 <= c /\ c <= 90
is_ascii_digit(c) == 48 <= c /\ c <= 57

\* char::is_whitespace: White_Space below U+0100
is_whitespace(c) == c \in {9, 10, 11, 12, 13, 32, 133, 160}

\* str::to_ascii_lowercase: 'A' ..= 'Z' become 'a' ..= 'z', all else is kept
str_to_ascii_lowercase(s) ==
    [i \in 1 .. Len(s) |-> IF is_ascii_uppercase(s[i]) THEN s[i] + 32 ELSE s[i]]

\* char::to_uppercase, the chars it yields: Unicode's upper case
to_uppercase(c) ==
    IF 97 <= c /\ c <= 122 THEN <<c - 32>>
    ELSE IF c = 181 THEN <<924>>
    ELSE IF c = 223 THEN <<83, 83>>
    ELSE IF c = 255 THEN <<376>>
    ELSE IF 224 <= c /\ c <= 254 /\ c # 247 THEN <<c - 32>>
    ELSE <<c>>

\* the separators rust_type_name splits at
IsSeparator(c) == is_whitespace(c) \/ c = 46 \/ c = 95 \/ c = 45

RECURSIVE split(_, _)
\* str::split by IsSeparator: the components of s after the component cur
\* that is being read, empty components included
split(s, cur) ==
    IF s = <<>> THEN <<cur>>
    ELSE IF IsSeparator(Head(s)) THEN <<cur>> \o split(Tail(s), <<>>)
    ELSE split(Tail(s), Append(cur, Head(s)))

\* the closure of rust_type_name: the component in lower case with its first
\* char in upper case
Component(component) ==
    LET lower == str_to_ascii_lowercase(component)
    IN IF lower = <<>> THEN <<>> ELSE to_uppercase(Head(lower)) \o Tail(lower)

RECURSIVE collect(_)
\* Iterator::collect::<String>()
collect(strs) == IF strs = <<>> THEN <<>> ELSE Head(strs) \o collect(Tail(strs))

\* a rust_type_name that keeps the separators
rust_type_name_keeping_separators(s) ==
    IF \A i \in 1 .. Len(s) : is_ascii_uppercase(s[i]) \/ is_ascii_digit(s[i]) THEN s
    ELSE [i \in 1 .. Len(s) |->
             IF i = 1 \/ IsSeparator(s[i - 1]) THEN to_uppercase(s[i])[1]
             ELSE str_to_ascii_lowercase(<<s[i]>>)[1]]

\* rust_type_name
rust_type_name(s) ==
    IF \A i \in 1 .. Len(s) : is_ascii_uppercase(s[i]) \/ is_ascii_digit(s[i]) THEN s
    ELSE LET components == split(s, <<>>)
         IN collect([i \in 1 .. Len(components) |-> Component(components[i])])

(***************************************************************************)
(* Codepoint literals.                                                     *)
(***************************************************************************)
\* char::from_u32(cp).is_some(): a Unicode scalar value.
IsScalar(cp) == Le(cp, U32(1114111)) /\ ~(Le(U32(55296), cp) /\ Le(cp, U32(57343)))

None == [f |-> "none", v |-> U32(0)]

\* Writer::rust_codepoint: Some(source text) or None.  The text is kept as
\* its form f and operand v; LitText is the text itself.
rust_codepoint(o, cp) ==
    IF o.char_literals
    THEN IF IsScalar(cp) THEN [f |-> "char", v |-> cp] ELSE None
    ELSE IF cp = Not(U32(0)) THEN [f |-> "not", v |-> U32(0)]
    ELSE [f |-> "dec", v |-> cp]

\* Writer::rust_codepoint_type
rust_codepoint_type(o) == IF o.char_literals THEN "char" ELSE "u32"

\* format!("{:?}", c) of a char.  The universe holds no printable character
\* (below 0x20 only 0 .. 8, above it only unassigned or reserved values), so
\* the escapes of char::escape_debug that occur are \0 and \u{hex}.
CharDebug(cp) ==
    IF cp = U32(0) THEN <<"'", "\\", "0", "'">>
    ELSE IF cp = U32(9) THEN <<"'", "\\", "t", "'">>
    ELSE IF cp = U32(10) THEN <<"'", "\\", "n", "'">>
    ELSE IF cp = U32(13) THEN <<"'", "\\", "r", "'">>
    ELSE <<"'", "\\", "u", "{">> \o Hex(cp) \o <<"}", "'">>

LitText(l) ==
    CASE l.f = "char" -> CharDebug(l.v)
      [] l.f = "not" -> <<"!">> \o Dec(l.v)
      [] l.f = "dec" -> Dec(l.v)

\* The value the Rust compiler reads from the literal, of type u32 or char.
LitValue(l) ==
    CASE l.f = "char" -> l.v
      [] l.f = "not" -> Not(l.v)
      [] l.f = "dec" -> l.v

(***************************************************************************)
(* Tokens: what the Writer passes to LineWriter::write_str.                *)
(***************************************************************************)
Text(tok) ==
    CASE tok.k = "indent" -> tok.txt
      [] tok.k = "range" ->
            <<"(">> \o LitText(tok.s) \o <<",", " ">> \o LitText(tok.e)
                \o <<")", ",", " ">>
      [] tok.k = "rangeval" ->
            <<"(">> \o LitText(tok.s) \o <<",", " ">> \o LitText(tok.e)
                \o <<",", " ">> \o Dec(tok.v) \o <<")", ",", " ">>
      [] tok.k = "text" -> tok.txt
      [] tok.k = "arm" ->
            Dec(tok.from) \o <<" ", "=", ">", " ", "S", "o", "m", "e", "(", "N", "o", "n",
                "Z", "e", "r", "o", "U", "3", "2", ":", ":", "n", "e", "w",
                "_", "u", "n", "c", "h", "e", "c", "k", "e", "d", "(">>
                \o Dec(tok.to) \o <<")", ")", ",">>
      [] tok.k = "cpstr" ->
            <<"(">> \o LitText(tok.cp) \o <<",", " ">> \o tok.dbg \o <<")", ",", " ">>

RECURSIVE LineLen(_)
\* String::len() of the pending line.
LineLen(line) == IF line = <<>> THEN 0
                 ELSE Len(Text(Head(line))) + LineLen(Tail(line))

(***************************************************************************)
(* The Writer and its LineWriter as one record m:                          *)
(*   m.wrote_header, m.wtr = [line, columns, indent], m.out (the items     *)
(*   written to the sink by this call), m.files, m.creates, m.err          *)
(* A sink item is [k |-> "raw", t, a]: one write!/writeln! through         *)
(* io::Write, or [k |-> "line", toks]: one flushed token line, its first   *)
(* token the indentation.  The body of a method is the sequence of its     *)
(* statements, in execution order; Run executes them on m and stops at     *)
(* the first that returns an error.                                        *)
(***************************************************************************)
\* LineWriter::new
LineWriter_new == [line |-> <<>>, columns |-> 79, indent |-> <<" ", " ">>]

Raw(t, a) == [k |-> "raw", t |-> t, a |-> a]

\* a flush_line that keeps the pending line
flush_line_not_clearing(m) ==
    IF m.wtr.line = <<>> THEN m
    ELSE [m EXCEPT !.out = Append(@, [k |-> "line", toks |-> m.wtr.line])]

\* LineWriter::flush_line.  trim_end() removes the trailing blank of the last
\* token; the item keeps the tokens, which determine the text.
flush_line(m) ==
    IF m.wtr.line = <<>> THEN m
    ELSE [m EXCEPT !.out = Append(@, [k |-> "line", toks |-> m.wtr.line]),
                   !.wtr.line = <<>>]

\* a write_str that never starts a new line
write_str_on_one_line(m, tok) ==
    LET m2 == IF m.wtr.line = <<>>
              THEN [m EXCEPT !.wtr.line = <<[k |-> "indent", txt |-> m.wtr.indent]>>]
              ELSE m
    IN [m2 EXCEPT !.wtr.line = Append(@, tok)]

\* a write_str that puts the indentation before every token
write_str_indenting_each(m, tok) ==
    LET m1 == IF LineLen(m.wtr.line) + Len(Text(tok)) > m.wtr.columns
              THEN flush_line(m) ELSE m
    IN [m1 EXCEPT !.wtr.line = @ \o <<[k |-> "indent", txt |-> m1.wtr.indent], tok>>]

\* LineWriter::write_str
write_str(m, tok) ==
    LET m1 == IF LineLen(m.wtr.line) + Len(Text(tok)) > m.wtr.columns
              THEN flush_line(m) ELSE m
        m2 == IF m1.wtr.line = <<>>
              THEN [m1 EXCEPT !.wtr.line =
                        <<[k |-> "indent", txt |-> m1.wtr.indent]>>]
              ELSE m1
    IN [m2 EXCEPT !.wtr.line = Append(@, tok)]

\* LineWriter::indent
indent(m, s) == [m EXCEPT !.wtr.indent = s]

\* a write that leaves the pending line pending
write_past_pending(m, item) == [m EXCEPT !.out = Append(@, item)]

\* <LineWriter as io::Write>::write, reached by write! and writeln!
write(m, item) == LET m1 == flush_line(m) IN [m1 EXCEPT !.out = Append(@, item)]

\* <LineWriter as io::Write>::flush
flush(m) == flush_line(m)

\* File::create(path) and the write of the whole file
create(m, path, bytes) ==
    [m EXCEPT !.files = [n \in (DOMAIN @) \cup {path} |-> IF n = path THEN bytes ELSE @[n]],
              !.creates = @ + 1]

Fail(m, e) == [m EXCEPT !.err = e]

\* The statements of a method body.
WriteSt(t, a) == [op |-> "write", item |-> Raw(t, a)]
WriteStrSt(tok) == [op |-> "write_str", tok |-> tok]
IndentSt(s) == [op |-> "indent", s |-> s]
FlushSt == [op |-> "flush"]
FlushLineSt == [op |-> "flush_line"]
CreateSt(path, bytes) == [op |-> "create", path |-> path, bytes |-> bytes]
FailSt(e) == [op |-> "fail", e |-> e]

Step(m, st) ==
    CASE st.op = "write" -> write(m, st.item)
      [] st.op = "write_str" -> write_str(m, st.tok)
      [] st.op = "indent" -> indent(m, st.s)
      [] st.op = "flush" -> flush(m)
      [] st.op = "flush_line" -> flush_line(m)
      [] st.op = "create" -> create(m, st.path, st.bytes)
      [] st.op = "fail" -> Fail(m, st.e)

RECURSIVE Run(_, _)
\* the statements in order: the first half, and from the Writer m1 it
\* leaves, the second half
Run(m, sts) ==
    IF sts = <<>> \/ m.err # "none" THEN m
    ELSE IF Len(sts) = 1 THEN Step(m, sts[1])
    ELSE LET h == Len(sts) \div 2
         IN CHOOSE r \in {Run(m1, SubSeq(sts, h + 1, Len(sts))) :
                              m1 \in {Run(m, SubSeq(sts, 1, h))}} : TRUE

\* Writer::separator
separator == WriteSt("separator", <<>>)

HeaderTags == {"hdr_do_not_edit", "hdr_blank", "hdr_argv", "hdr_version", "hdr_generator"}

\* Writer::ucd_version: one or two lines naming the generator (which, is
\* fixed when the crate is built).
ucd_version == WriteSt("hdr_generator", <<>>)

\* a header that is written by every call
header_every_call(m, o) ==
    Run(m, <<WriteSt("hdr_do_not_edit", <<>>), WriteSt("hdr_blank", <<>>),
             WriteSt("hdr_argv", <<>>), WriteSt("hdr_blank", <<>>), ucd_version>>)

\* Writer::header
header(m, o) ==
    IF m.wrote_header THEN m
    ELSE [Run(m, <<WriteSt("hdr_do_not_edit", <<>>), WriteSt("hdr_blank", <<>>),
                   WriteSt("hdr_argv", <<>>), WriteSt("hdr_blank", <<>>)>>
                 \o (IF o.ucd_version
                     THEN <<WriteSt("hdr_version", <<>>), WriteSt("hdr_blank", <<>>)>>
                     ELSE <<>>)
                 \o <<ucd_version>>)
          EXCEPT !.wrote_header = TRUE]

\* The block an item belongs to.
BlockOf(item) == IF item.k = "raw" /\ item.t \in HeaderTags THEN "header" ELSE "table"

RECURSIVE Blocks(_, _)
\* sink extended by the blocks of items: consecutive items of one block
\* count once, and the header's first line always starts a block.
Blocks(s, items) ==
    IF items = <<>> THEN s
    ELSE IF Len(items) = 1
    THEN LET b == BlockOf(items[1])
             first == items[1].k = "raw" /\ items[1].t = "hdr_do_not_edit"
         IN IF s # <<>> /\ s[Len(s)] = b /\ ~first THEN s ELSE Append(s, b)
    ELSE LET h == Len(items) \div 2
         IN CHOOSE r \in {Blocks(s1, SubSeq(items, h + 1, Len(items))) :
                              s1 \in {Blocks(s, SubSeq(items, 1, h))}} : TRUE

(***************************************************************************)
(* Collaborators outside src/writer.rs.                                    *)
(***************************************************************************)
\* u32_key: the four bytes of cp, most significant first (BE::write_u32).
\* the key in little-endian
u32_key_little_endian(cp) == <<cp[2] % 256, cp[2] \div 256, cp[1] % 256, cp[1] \div 256>>

u32_key(cp) == <<cp[1] \div 256, cp[1] % 256, cp[2] \div 256, cp[2] % 256>>

\* fst::SetBuilder / MapBuilder: keys must be inserted in strictly
\* increasing order, else the insert is an error.  entries are <<key, value>>.
FstBuildOk(entries) ==
    \A i \in 1 .. (Len(entries) - 1) : LexLess(entries[i][1], entries[i + 1][1])

\* ucd_trie::TrieSetOwned::from_codepoints: an error for a value above
\* 0x10FFFF.
TrieBuildOk(cps) == \A i \in 1 .. Len(cps) : Le(cps[i], U32(1114111))

RECURSIVE range_add(_, _)
\* util::to_ranges: one left-to-right pass over the sorted codepoints; a
\* codepoint one above the end of the last run extends it, any other starts
\* a run.  range_add(runs, cps) is the runs after adding cps.
range_add(runs, cps) ==
    IF cps = <<>> THEN runs
    ELSE LET cp == Head(cps)
             n == Len(runs)
         IN IF n > 0 /\ cp = Succ(runs[n][2])
            THEN range_add([runs EXCEPT ![n] = <<runs[n][1], cp>>], Tail(cps))
            ELSE range_add(Append(runs, <<cp, cp>>), Tail(cps))

to_ranges(cps) == range_add(<<>>, cps)

RECURSIVE range_value_add(_, _)
\* util::to_range_values: as to_ranges over <<codepoint, value>> pairs; a
\* pair extends the last run when its codepoint is one above the run's end
\* and its value is the run's value.
range_value_add(runs, kvs) ==
    IF kvs = <<>> THEN runs
    ELSE LET cp == Head(kvs)[1]
             v == Head(kvs)[2]
             n == Len(runs)
         IN IF n > 0 /\ cp = Succ(runs[n][2]) /\ v = runs[n][3]
            THEN range_value_add([runs EXCEPT ![n] = <<runs[n][1], cp, v>>], Tail(kvs))
            ELSE range_value_add(Append(runs, <<cp, cp, v>>), Tail(kvs))

to_range_values(kvs) == range_value_add(<<>>, kvs)

\* The entries of a map in key order: BTreeMap iteration.
Entries(map) == LET ks == Sorted(DOMAIN map)
                IN [i \in 1 .. Len(ks) |-> <<ks[i], map[ks[i]]>>]

(***************************************************************************)
(* Writer: the private emitters.                                           *)
(***************************************************************************)
\* Writer::fst: the blob file, then the loader text.  entries stands for the
\* automaton's bytes.
fst(const_name, entries, map) ==
    LET fst_file_name == rust_module_name(const_name) \o <<".", "f", "s", "t">>
        ty == IF map THEN "Map" ELSE "Set"
    IN <<CreateSt(fst_file_name, entries),
         WriteSt("fst_static", <<const_name, ty>>),
         WriteSt("fst_lazy_new", <<>>),
         WriteSt("fst_from", <<ty>>),
         WriteSt("fst_include_bytes", <<fst_file_name>>),
         WriteSt("fst_close", <<>>)>>

\* a loop that writes only the start of each run
RangeTokensOfStarts(o, table) ==
    SelectSeq([i \in 1 .. Len(table) |->
                  WriteStrSt([k |-> "range", s |-> rust_codepoint(o, table[i][1]),
                              e |-> rust_codepoint(o, table[i][1])])],
              LAMBDA st : st.tok.s # None)

RECURSIVE RangeTokens(_, _)
\* the loop of ranges_slice: a run is written when both its ends have a
\* literal, and skipped otherwise
RangeTokens(o, table) ==
    IF table = <<>> THEN <<>>
    ELSE LET start == rust_codepoint(o, Head(table)[1])
             end == rust_codepoint(o, Head(table)[2])
         IN (IF start # None /\ end # None
             THEN <<WriteStrSt([k |-> "range", s |-> start, e |-> end])>> ELSE <<>>)
            \o RangeTokens(o, Tail(table))

\* Writer::ranges_slice
ranges_slice(o, name, table) ==
    LET ty == rust_codepoint_type(o)
    IN <<WriteSt("decl_ranges", <<name, ty, ty>>)>>
       \o RangeTokens(o, table)
       \o <<WriteSt("close_slice", <<>>)>>

Word == [k |-> "text", txt |-> <<"0", ",", " ">>]

\* write_slice_u8 / write_slice_u64 of one array of the trie; one entry stands
\* for the array's numbers.
write_slice(field) ==
    <<WriteSt(field, <<>>), WriteStrSt(Word), WriteSt("close_array", <<>>)>>

\* Writer::trie_set
trie_set(name) ==
    <<WriteSt("decl_trie", <<name>>), IndentSt(<<" ", " ", " ", " ">>)>>
    \o write_slice("tree1_level1")
    \o write_slice("tree2_level1") \o write_slice("tree2_level2")
    \o write_slice("tree3_level1") \o write_slice("tree3_level2")
    \o write_slice("tree3_level3")
    \o <<WriteSt("close_trie", <<>>)>>

\* Writer::ranges
ranges(m, o, name, codepoints) ==
    LET cname == rust_const_name(name)
        cps == Sorted(codepoints)
        entries == [i \in 1 .. Len(cps) |-> <<u32_key(cps[i]), 0>>]
    IN Run(header(m, o),
           <<separator>>
           \o (IF o.fst_dir
               THEN IF FstBuildOk(entries) THEN fst(cname, entries, FALSE)
                    ELSE <<FailSt("fst")>>
               ELSE IF o.trie_set
               THEN IF TrieBuildOk(cps) THEN trie_set(cname) ELSE <<FailSt("trie")>>
               ELSE ranges_slice(o, cname, to_ranges(cps)))
           \o <<FlushSt>>)

\* the name of rust_codepoint_type as text
TypeText(ty) == IF ty = "char" THEN <<"c", "h", "a", "r">> ELSE <<"u", "3", "2">>

\* The type a declaration gives its item, from the format string of the
\* writeln! that writes it: ranges_slice, trie_set, fst.
DeclaredType(item) ==
    CASE item.t = "decl_ranges" ->
            <<"&", "'", "s", "t", "a", "t", "i", "c", " ", "[", "(">> \o TypeText(item.a[2]) \o <<",", " ">>
                \o TypeText(item.a[3]) \o <<")", "]">>
      [] item.t = "decl_trie" ->
            <<"&", "'", "s", "t", "a", "t", "i", "c", " ", ":", ":", "u", "c", "d",
            "_", "t", "r", "i", "e", ":", ":", "T", "r", "i", "e", "S", "e", "t">>
      [] item.t = "fst_static" ->
            <<":", ":", "o", "n", "c", "e", "_", "c", "e", "l", "l", ":", ":", "s",
            "y", "n", "c", ":", ":", "L", "a", "z", "y", "<", ":", ":", "f", "s",
            "t", ":", ":">>
                \o (IF item.a[2] = "Map" THEN <<"M", "a", "p">> ELSE <<"S", "e", "t">>)
                \o <<"<", "&", "'", "s", "t", "a", "t", "i", "c", " ", "[", "u", "8", "]",
        ">", ">">>

\* the element type names declares for BY_NAME
names_ty(o) ==
    IF o.fst_dir THEN <<":", ":", "f", "s", "t", ":", ":", "S", "e", "t", "<", "&", "'", "s",
        "t", "a", "t", "i", "c", " ", "[", "u", "8", "]", ">">>
    ELSE IF o.trie_set THEN <<"&", "'", "s", "t", "a", "t", "i", "c", " ", ":", ":", "u", "c", "d",
            "_", "t", "r", "i", "e", ":", ":", "T", "r", "i", "e", "S", "e", "t">>
    ELSE LET charty == TypeText(rust_codepoint_type(o))
         IN <<"&", "'", "s", "t", "a", "t", "i", "c", " ", "[", "(">> \o charty \o <<",", " ">> \o charty \o <<")", "]">>


(***************************************************************************)
(* Writer: integer-valued range tables.                                    *)
(***************************************************************************)
\* a choice of type with the limits themselves in the next type
smallest_unsigned_type_below(n) ==
    IF Lt(n, U64(255)) THEN "u8"
    ELSE IF Lt(n, U64(65535)) THEN "u16"
    ELSE IF Lt(n, AsU64(U32Max)) THEN "u32"
    ELSE "u64"

\* smallest_unsigned_type
smallest_unsigned_type(n) ==
    IF Le(n, U64(255)) THEN "u8"
    ELSE IF Le(n, U64(65535)) THEN "u16"
    ELSE IF Le(n, AsU64(U32Max)) THEN "u32"
    ELSE "u64"

\* a loop that writes the first run's value with every run
RangeValueTokensOfFirstValue(o, table) ==
    SelectSeq([i \in 1 .. Len(table) |->
                  WriteStrSt([k |-> "rangeval", s |-> rust_codepoint(o, table[i][1]),
                              e |-> rust_codepoint(o, table[i][2]), v |-> table[1][3]])],
              LAMBDA st : st.tok.s # None /\ st.tok.e # None)

RECURSIVE RangeValueTokens(_, _)
\* the loop of ranges_to_unsigned_integer_slice
RangeValueTokens(o, table) ==
    IF table = <<>> THEN <<>>
    ELSE LET start == rust_codepoint(o, Head(table)[1])
             end == rust_codepoint(o, Head(table)[2])
         IN (IF start # None /\ end # None
             THEN <<WriteStrSt([k |-> "rangeval", s |-> start, e |-> end,
                                v |-> Head(table)[3]])>>
             ELSE <<>>)
            \o RangeValueTokens(o, Tail(table))

\* table.iter().map(|&(_, _, n)| n).max(), for a table that is not empty
MaxNum(table) == Max({table[i][3] : i \in 1 .. Len(table)})

\* a numeric type chosen from the first run alone
NumTyOfFirstRun(table) ==
    IF table = <<>> THEN "u8" ELSE smallest_unsigned_type(table[1][3])

\* the numeric type ranges_to_unsigned_integer_slice declares
NumTy(table) == IF table = <<>> THEN "u8" ELSE smallest_unsigned_type(MaxNum(table))

\* Writer::ranges_to_unsigned_integer_slice
ranges_to_unsigned_integer_slice(o, name, table) ==
    LET cp_ty == rust_codepoint_type(o)
        num_ty == NumTy(table)
    IN <<WriteSt("decl_range_values", <<name, cp_ty, cp_ty, num_ty>>)>>
       \o RangeValueTokens(o, table)
       \o <<WriteSt("close_slice", <<>>)>>

\* Writer::ranges_to_unsigned_integer
ranges_to_unsigned_integer(m, o, name, map) ==
    LET cname == rust_const_name(name)
        kvs == Entries(map)
        entries == [i \in 1 .. Len(kvs) |-> <<u32_key(kvs[i][1]), kvs[i][2]>>]
    IN Run(header(m, o),
           <<separator>>
           \o (IF o.fst_dir
               THEN IF FstBuildOk(entries) THEN fst(cname, entries, TRUE)
                    ELSE <<FailSt("fst")>>
               ELSE ranges_to_unsigned_integer_slice(o, cname, to_range_values(kvs)))
           \o <<FlushSt>>)

(***************************************************************************)
(* Writer: string maps and codepoint -> codepoints maps.                   *)
(***************************************************************************)
\* format!("{:?}", s) of a string of ASCII letters: the string in quotes.
StrDebug(s) == <<"\"">> \o s \o <<"\"">>

TextSt(txt) == WriteStrSt([k |-> "text", txt |-> txt])

\* "({:?}, {:?}), "
PairToken(k, v) ==
    TextSt(<<"(">> \o StrDebug(k) \o <<",", " ">> \o StrDebug(v) \o <<")", ",", " ">>)

\* The order of two strings of lower-case ASCII letters: str's Ord.
StrLess(a, b) ==
    LexLess([i \in 1 .. Len(a) |-> IndexIn(a[i], Lowers, 1)],
            [i \in 1 .. Len(b) |-> IndexIn(b[i], Lowers, 1)])

\* The keys of a BTreeMap<String, _> in iteration order.
SortedStrs(S) ==
    LET rank(x) == Cardinality({y \in S : StrLess(y, x)}) + 1
    IN [i \in 1 .. Cardinality(S) |-> CHOOSE x \in S : rank(x) = i]

\* the loop of string_to_string over the map
PairTokens(map) ==
    LET ks == SortedStrs(DOMAIN map)
    IN [i \in 1 .. Len(ks) |-> PairToken(ks[i], map[ks[i]])]

\* Writer::names.  The names are sorted; the call ends with writeln! and
\* does not flush the sink.
names(m, o, ns) ==
    LET sorted == SortedStrs(ns)
    IN Run(header(m, o),
           <<separator, WriteSt("decl_by_name", <<names_ty(o)>>)>>
           \o [i \in 1 .. Len(sorted) |->
                  TextSt(<<"(">> \o StrDebug(sorted[i]) \o <<",", " ">>
                            \o rust_const_name(sorted[i]) \o <<")", ",", " ">>)]
           \o <<WriteSt("close_slice", <<>>)>>)

\* a string_to_string that does not look at fst_dir
string_to_string_any_backend(m, o, name, map) ==
    Run(header(m, o),
        <<separator,
          WriteSt("decl_string_to_string", <<rust_const_name(name)>>)>>
        \o PairTokens(map)
        \o <<WriteSt("close_slice", <<>>), FlushSt>>)

\* Writer::string_to_string
string_to_string(m, o, name, map) ==
    IF o.fst_dir THEN Fail(m, "cannot emit string->string map as an FST")
    ELSE Run(header(m, o),
             <<separator,
               WriteSt("decl_string_to_string", <<rust_const_name(name)>>)>>
             \o PairTokens(map)
             \o <<WriteSt("close_slice", <<>>), FlushSt>>)

RECURSIVE string_to_string_to_string_loop(_, _, _)
\* the loop of string_to_string_to_string over the outer keys ks from i on
string_to_string_to_string_loop(map, ks, i) ==
    IF i > Len(ks) THEN <<>>
    ELSE (IF i > 1 THEN <<WriteSt("blank", <<>>)>> ELSE <<>>)
         \o <<TextSt(<<"(">> \o StrDebug(ks[i]) \o <<",", " ", "&", "[">>)>>
         \o PairTokens(map[ks[i]])
         \o <<TextSt(<<"]", ")", ",", " ">>)>>
         \o string_to_string_to_string_loop(map, ks, i + 1)

\* Writer::string_to_string_to_string
string_to_string_to_string(m, o, name, map) ==
    IF o.fst_dir THEN Fail(m, "cannot emit string->string map as an FST")
    ELSE Run(header(m, o),
             <<separator,
               WriteSt("decl_string_to_string_to_string", <<rust_const_name(name)>>)>>
             \o string_to_string_to_string_loop(map, SortedStrs(DOMAIN map), 1)
             \o <<WriteSt("close_slice", <<>>), FlushSt>>)

Contains(vs, x) == \E i \in 1 .. Len(vs) : vs[i] = x

\* a flat row without its padding
PadTo3_unpadded(vs, flat_padding) == vs

\* vs.iter().copied().chain(repeat(flat_padding)).take(3)
PadTo3(vs, flat_padding) ==
    [i \in 1 .. 3 |-> IF i <= Len(vs) THEN vs[i] ELSE flat_padding]

LitToken(l, suffix) == TextSt(LitText(l) \o suffix)

RECURSIVE codepoint_to_codepoints_loop_any_value(_, _, _)
\* a loop that does not look for the padding among the values
codepoint_to_codepoints_loop_any_value(o, kvs, emit_flat_table) ==
    IF kvs = <<>> THEN <<>>
    ELSE
    LET k == Head(kvs)[1]
        vs == Head(kvs)[2]
        kstr == rust_codepoint(o, k)
        flat_padding == IF o.char_literals THEN U32(0) ELSE Not(U32(0))
        padded_vs == IF emit_flat_table THEN PadTo3(vs, flat_padding) ELSE vs
        vstrs == [i \in 1 .. Len(padded_vs) |-> rust_codepoint(o, padded_vs[i])]
        slice_prefix == IF emit_flat_table THEN <<>> ELSE <<"&">>
        entry ==
            <<TextSt(<<"(">> \o LitText(kstr) \o <<",", " ">> \o slice_prefix \o <<"[">>)>>
            \o (IF Len(vstrs) = 1 THEN <<LitToken(vstrs[1], <<>>)>>
                ELSE [i \in 1 .. Len(vstrs) |-> LitToken(vstrs[i], <<",", " ">>)])
            \o <<TextSt(<<"]", ")", ",", " ">>)>>
        rest == codepoint_to_codepoints_loop_any_value(o, Tail(kvs), emit_flat_table)
    IN IF kstr = None THEN rest
       ELSE IF emit_flat_table /\ Len(vs) > 3 THEN <<FailSt("flat_more_than_3")>>
       ELSE IF \E i \in 1 .. Len(vstrs) : vstrs[i] = None THEN rest
       ELSE entry \o rest

RECURSIVE codepoint_to_codepoints_loop(_, _, _)
\* the loop 'LOOP of codepoint_to_codepoints over the entries kvs
codepoint_to_codepoints_loop(o, kvs, emit_flat_table) ==
    IF kvs = <<>> THEN <<>>
    ELSE
    LET k == Head(kvs)[1]
        vs == Head(kvs)[2]
        kstr == rust_codepoint(o, k)
        flat_padding == IF o.char_literals THEN U32(0) ELSE Not(U32(0))
        padded_vs == IF emit_flat_table THEN PadTo3(vs, flat_padding) ELSE vs
        vstrs == [i \in 1 .. Len(padded_vs) |-> rust_codepoint(o, padded_vs[i])]
        slice_prefix == IF emit_flat_table THEN <<>> ELSE <<"&">>
        entry ==
            <<TextSt(<<"(">> \o LitText(kstr) \o <<",", " ">> \o slice_prefix \o <<"[">>)>>
            \o (IF Len(vstrs) = 1 THEN <<LitToken(vstrs[1], <<>>)>>
                ELSE [i \in 1 .. Len(vstrs) |-> LitToken(vstrs[i], <<",", " ">>)])
            \o <<TextSt(<<"]", ")", ",", " ">>)>>
        rest == codepoint_to_codepoints_loop(o, Tail(kvs), emit_flat_table)
    IN IF kstr = None THEN rest
       ELSE IF emit_flat_table /\ Len(vs) > 3 THEN <<FailSt("flat_more_than_3")>>
       ELSE IF emit_flat_table /\ Contains(vs, flat_padding) THEN <<FailSt("flat_padding")>>
       ELSE IF \E i \in 1 .. Len(vstrs) : vstrs[i] = None THEN rest
       ELSE entry \o rest

\* Writer::codepoint_to_codepoints
codepoint_to_codepoints(m, o, name, map, emit_flat_table) ==
    IF o.fst_dir THEN Fail(m, "cannot emit codepoint->codepoints map as an FST")
    ELSE LET ty == rust_codepoint_type(o)
         IN Run(header(m, o),
                <<separator,
                  WriteSt(IF emit_flat_table THEN "decl_flat" ELSE "decl_slices",
                          <<rust_const_name(name), ty, ty>>)>>
                \o codepoint_to_codepoints_loop(o, Entries(map), emit_flat_table)
                \o <<WriteSt("close_slice", <<>>), FlushSt>>)

\* Writer::multi_codepoint_to_codepoint
multi_codepoint_to_codepoint(m, o, name, map, emit_flat_table) ==
    IF o.fst_dir THEN Fail(m, "cannot emit codepoint multimaps as an FST")
    ELSE codepoint_to_codepoints(m, o, name, [k \in DOMAIN map |-> Sorted(map[k])],
                                 emit_flat_table)

(***************************************************************************)
(* Writer: the match function and the codepoint -> string map.             *)
(***************************************************************************)
\* rust_fn_name: ASCII lower case, then white space, '.' and '-' become '_'.
rust_fn_name(s) ==
    LET l == make_ascii_lowercase(s)
    IN [i \in 1 .. Len(l) |-> IF l[i] \in {" ", "\t", ".", "-"} THEN "_" ELSE l[i]]

\* a loop that looks for a zero destination in the first entry only
codepoint_to_codepoint_fn_loop_first_only(kvs) ==
    IF kvs # <<>> /\ kvs[1][2] = U32(0)
    THEN <<FailSt("destination codepoint must not be 0")>>
    ELSE [i \in 1 .. (2 * Len(kvs)) |->
             IF i % 2 = 1
             THEN WriteStrSt([k |-> "arm", from |-> kvs[(i + 1) \div 2][1],
                              to |-> kvs[(i + 1) \div 2][2]])
             ELSE FlushLineSt]

RECURSIVE codepoint_to_codepoint_fn_loop(_)
\* the loop of codepoint_to_codepoint_fn over the entries kvs
codepoint_to_codepoint_fn_loop(kvs) ==
    IF kvs = <<>> THEN <<>>
    ELSE LET from == Head(kvs)[1]
             to == Head(kvs)[2]
         IN IF to = U32(0) THEN <<FailSt("destination codepoint must not be 0")>>
            ELSE <<WriteStrSt([k |-> "arm", from |-> from, to |-> to]), FlushLineSt>>
                 \o codepoint_to_codepoint_fn_loop(Tail(kvs))

Spaces(n) == [i \in 1 .. n |-> " "]

\* Writer::codepoint_to_codepoint_fn
codepoint_to_codepoint_fn(m, o, name, map) ==
    Run(header(m, o),
        <<separator,
          WriteSt("use_nonzero", <<>>),
          separator,
          WriteSt("decl_fn", <<rust_fn_name(name)>>),
          IndentSt(Spaces(4)),
          TextSt(<<"/", "/", " ", "n", "e", "w", "_", "u", "n", "c", "h", "e",
                 "c", "k", "e", "d", " ", "i", "s", " ", "s", "a", "f", "e",
                 " ", "a", "s", " ", "u", "c", "d", "-", "g", "e", "n", "e",
                 "r", "a", "t", "e", " ", "c", "h", "e", "c", "k", "s", " ",
                 "t", "h", "a", "t", " ", "t", "h", "e", " ", "d", "e", "s",
                 "t", "i", "n", "a", "t", "i", "o", "n">>),
          FlushLineSt,
          TextSt(<<"/", "/", " ", "c", "o", "d", "e", "p", "o", "i", "n", "t",
                 " ", "i", "s", " ", "n", "o", "n", "-", "z", "e", "r", "o",
                 " ", "a", "t", " ", "c", "o", "d", "e", " ", "g", "e", "n",
                 "e", "r", "a", "t", "i", "o", "n", " ", "t", "i", "m", "e",
                 ".">>),
          FlushLineSt,
          TextSt(<<"u", "n", "s", "a", "f", "e", " ", "{">>),
          FlushLineSt,
          IndentSt(Spaces(8)),
          TextSt(<<"m", "a", "t", "c", "h", " ", "c", "p", " ", "{">>),
          FlushLineSt,
          IndentSt(Spaces(12))>>
        \o codepoint_to_codepoint_fn_loop(Entries(map))
        \o <<TextSt(<<"_", " ", "=", ">", " ", "N", "o", "n", "e", ",">>),
             FlushLineSt,
             IndentSt(Spaces(8)),
             TextSt(<<"}">>),
             FlushLineSt,
             IndentSt(Spaces(4)),
             TextSt(<<"}">>),
             FlushLineSt,
             WriteSt("close_fn", <<>>),
             FlushSt>>)

\* format!("{:?}", s) of a string whose bytes are NUL and 'A'
BytesDebug(s) ==
    LET esc(b) == IF b = 0 THEN <<"\\", "0">> ELSE <<"A">>
        body[i \in 0 .. Len(s)] == IF i = 0 THEN <<>> ELSE body[i - 1] \o esc(s[i])
    IN <<"\"">> \o body[Len(s)] \o <<"\"">>

RECURSIVE codepoint_to_string_slice_loop(_, _)
\* the loop of codepoint_to_string_slice
codepoint_to_string_slice_loop(o, table) ==
    IF table = <<>> THEN <<>>
    ELSE LET cp == rust_codepoint(o, Head(table)[1])
         IN (IF cp # None
             THEN <<WriteStrSt([k |-> "cpstr", cp |-> cp,
                                dbg |-> BytesDebug(Head(table)[2])])>>
             ELSE <<>>)
            \o codepoint_to_string_slice_loop(o, Tail(table))

\* Writer::codepoint_to_string_slice
codepoint_to_string_slice(o, name, table) ==
    <<WriteSt("decl_codepoint_to_string", <<name, rust_codepoint_type(o)>>)>>
    \o codepoint_to_string_slice_loop(o, table)
    \o <<WriteSt("close_slice", <<>>)>>

PackedOk(entries) == [k |-> "ok", e |-> "", entries |-> entries]
PackedErr(e) == [k |-> "err", e |-> e, entries |-> <<>>]

RECURSIVE codepoint_to_string_loop_skipping(_)
\* a loop that leaves out the strings that do not pack
codepoint_to_string_loop_skipping(kvs) ==
    IF kvs = <<>> THEN PackedOk(<<>>)
    ELSE LET v == pack_str(Head(kvs)[2])
             rest == codepoint_to_string_loop_skipping(Tail(kvs))
         IN IF v.k # "ok" THEN rest
            ELSE PackedOk(<<<<u32_key(Head(kvs)[1]), v.v>>>> \o rest.entries)

RECURSIVE codepoint_to_string_loop(_)
\* the loop of codepoint_to_string on the FST path: pack_str(v)? and
\* builder.insert for each entry, in key order
codepoint_to_string_loop(kvs) ==
    IF kvs = <<>> THEN PackedOk(<<>>)
    ELSE LET v == pack_str(Head(kvs)[2])
             rest == codepoint_to_string_loop(Tail(kvs))
         IN IF v.k # "ok" THEN PackedErr(v.e)
            ELSE IF rest.k # "ok" THEN rest
            ELSE PackedOk(<<<<u32_key(Head(kvs)[1]), v.v>>>> \o rest.entries)

\* Writer::codepoint_to_string
codepoint_to_string(m, o, name, map) ==
    LET cname == rust_const_name(name)
        kvs == Entries(map)
        built == codepoint_to_string_loop(kvs)
    IN Run(header(m, o),
           <<separator>>
           \o (IF o.fst_dir
               THEN IF built.k # "ok" THEN <<FailSt(built.e)>>
                    ELSE IF FstBuildOk(built.entries) THEN fst(cname, built.entries, TRUE)
                    ELSE <<FailSt("fst")>>
               ELSE codepoint_to_string_slice(o, cname, kvs))
           \o <<FlushSt>>)

(***************************************************************************)
(* Writer: automaton exports.  A DFA is given by its kind and the size in  *)
(* bytes of its state identifier type S; its serialisations stand for      *)
(* their bytes.                                                            *)
(***************************************************************************)
Panics == {"unsupported DFA state id size", "called Option::unwrap() on a None value"}

\* rust_uint_type with every size read as a one-byte identifier
rust_uint_type_always_u8(size) == [k |-> "ok", v |-> "u8"]

\* rust_uint_type::<S>(), by size_of::<S>()
rust_uint_type(size) ==
    CASE size = 1 -> [k |-> "ok", v |-> "u8"]
      [] size = 2 -> [k |-> "ok", v |-> "u16"]
      [] size = 4 -> [k |-> "ok", v |-> "u32"]
      [] size = 8 -> [k |-> "ok", v |-> "u64"]
      [] OTHER -> [k |-> "panic", v |-> "unsupported DFA state id size"]

\* to_bytes_big_endian / to_bytes_little_endian of an automaton
DfaBytes(kind, size, dir, order) == <<kind, size, dir, order>>

Suffix(name, txt) == rust_module_name(name) \o txt

BigEndianDfa == <<".", "b", "i", "g", "e", "n", "d", "i", "a", "n", ".", "d",
    "f", "a">>
LittleEndianDfa == <<".", "l", "i", "t", "t", "l", "e", "e", "n", "d", "i", "a",
    "n", ".", "d", "f", "a">>
Fwd == <<".", "f", "w", "d">>
Rev == <<".", "r", "e", "v">>

\* Writer::write_dfa_deserialize
write_dfa_deserialize(short_dfa_ty, align_to, file_name) ==
    <<WriteSt("repr_c", <<>>),
      WriteSt("struct_aligned", <<>>),
      WriteSt("align_field", <<align_to>>),
      WriteSt("bytes_field", <<>>),
      WriteSt("struct_close", <<>>),
      WriteSt("blank_indented", <<>>),
      WriteSt("static_aligned", <<>>),
      WriteSt("align_init", <<>>),
      WriteSt("include_bytes", <<file_name>>),
      WriteSt("static_close", <<>>),
      WriteSt("blank_indented", <<>>),
      WriteSt("unsafe_open", <<>>),
      WriteSt("from_bytes", <<short_dfa_ty>>),
      WriteSt("unsafe_close", <<>>)>>

\* Writer::write_dfa_static
write_dfa_static(const_name, full_dfa_ty, short_dfa_ty, align_to, file_name) ==
    <<WriteSt("dfa_static", <<const_name, full_dfa_ty>>),
      WriteSt("lazy_new", <<>>)>>
    \o write_dfa_deserialize(short_dfa_ty, align_to, file_name)
    \o <<WriteSt("lazy_close", <<>>)>>

\* Writer::write_regex_static
write_regex_static(const_name, full_regex_ty, short_dfa_ty, align_to, fwd, rev) ==
    <<WriteSt("dfa_static", <<const_name, full_regex_ty>>),
      WriteSt("lazy_new", <<>>),
      WriteSt("let_fwd", <<>>)>>
    \o write_dfa_deserialize(short_dfa_ty, align_to, fwd)
    \o <<WriteSt("semicolon", <<>>),
         WriteSt("let_rev", <<>>)>>
    \o write_dfa_deserialize(short_dfa_ty, align_to, rev)
    \o <<WriteSt("semicolon", <<>>),
         WriteSt("from_dfas", <<>>),
         WriteSt("lazy_close", <<>>)>>

\* self.opts.dfa_dir.as_ref().unwrap(), then the rest of the body
UnwrapDfaDir(o, sts) ==
    IF o.dfa_dir THEN sts ELSE <<FailSt("called Option::unwrap() on a None value")>>

\* the body of dense_regex and sparse_regex after the state identifier type
\* is known
regex_body(o, const_name, kind, size, ty, align_to) ==
    LET fname_fwd_be == Suffix(const_name, Fwd \o BigEndianDfa)
        fname_rev_be == Suffix(const_name, Rev \o BigEndianDfa)
        fname_fwd_le == Suffix(const_name, Fwd \o LittleEndianDfa)
        fname_rev_le == Suffix(const_name, Rev \o LittleEndianDfa)
    IN UnwrapDfaDir(o,
           <<CreateSt(fname_fwd_be, DfaBytes(kind, size, "forward", "big")),
             CreateSt(fname_rev_be, DfaBytes(kind, size, "reverse", "big")),
             CreateSt(fname_fwd_le, DfaBytes(kind, size, "forward", "little")),
             CreateSt(fname_rev_le, DfaBytes(kind, size, "reverse", "little")),
             WriteSt("cfg_target_endian", <<"big">>)>>
           \o write_regex_static(const_name, ty, kind, align_to,
                                 fname_fwd_be, fname_rev_be)
           \o <<separator, WriteSt("cfg_target_endian", <<"little">>)>>
           \o write_regex_static(const_name, ty, kind, align_to,
                                 fname_fwd_le, fname_rev_le))

\* the body of dense_dfa and sparse_dfa after the state identifier type is
\* known
dfa_body(o, const_name, kind, size, ty, align_to) ==
    LET fname_be == Suffix(const_name, BigEndianDfa)
        fname_le == Suffix(const_name, LittleEndianDfa)
    IN UnwrapDfaDir(o,
           <<CreateSt(fname_be, DfaBytes(kind, size, "forward", "big")),
             CreateSt(fname_le, DfaBytes(kind, size, "forward", "little")),
             WriteSt("cfg_target_endian", <<"big">>)>>
           \o write_dfa_static(const_name, ty, kind, align_to, fname_be)
           \o <<separator, WriteSt("cfg_target_endian", <<"little">>)>>
           \o write_dfa_static(const_name, ty, kind, align_to, fname_le))

\* Writer::dense_regex
dense_regex(m, o, const_name, size) ==
    LET idty == rust_uint_type(size)
    IN Run(header(m, o),
           <<separator>>
           \o (IF idty.k = "panic" THEN <<FailSt(idty.v)>>
               ELSE regex_body(o, const_name, "DenseDFA", size,
                               <<"Regex", "DenseDFA", idty.v, idty.v>>, idty.v)))

\* Writer::sparse_regex
sparse_regex(m, o, const_name, size) ==
    LET idty == rust_uint_type(size)
    IN Run(header(m, o),
           <<separator>>
           \o (IF idty.k = "panic" THEN <<FailSt(idty.v)>>
               ELSE regex_body(o, const_name, "SparseDFA", size,
                               <<"Regex", "SparseDFA", "u8", idty.v>>, "u8")))

\* Writer::dense_dfa
dense_dfa(m, o, const_name, size) ==
    LET idty == rust_uint_type(size)
    IN Run(header(m, o),
           <<separator>>
           \o (IF idty.k = "panic" THEN <<FailSt(idty.v)>>
               ELSE dfa_body(o, const_name, "DenseDFA", size,
                             <<"DenseDFA", idty.v, idty.v>>, idty.v)))

\* Writer::sparse_dfa
sparse_dfa(m, o, const_name, size) ==
    LET idty == rust_uint_type(size)
    IN Run(header(m, o),
           <<separator>>
           \o (IF idty.k = "panic" THEN <<FailSt(idty.v)>>
               ELSE dfa_body(o, const_name, "SparseDFA", size,
                             <<"SparseDFA", "u8", idty.v>>, "u8")))

(***************************************************************************)
(* Spec: the builder, then the calls on the Writer made from it.           *)
(***************************************************************************)
Names == {<<"A", "b", ".", "c">>}

\* the names given to names()
NameSets == SUBSET {<<"A", "b", ".", "c">>, <<"a">>}

\* WriterBuilder::new
WriterBuilder_new ==
    [columns |-> 79, char_literals |-> FALSE, fst_dir |-> FALSE,
     trie_set |-> FALSE, dfa_dir |-> FALSE, ucd_version |-> FALSE]

NoCall == [op |-> "none", name |-> <<>>, arg |-> <<>>, flat |-> FALSE]

NotPacked == [k |-> "none", e |-> "", v |-> U64(0)]
NotUnpacked == [done |-> FALSE, chars |-> <<>>]

LineIdle == lw = LineWriter_new /\ lsink = <<>> /\ lops = 0 /\ lhist = <<>>
PackIdle == ps = <<>> /\ packed = NotPacked /\ unpacked = NotUnpacked
WidthIdle == wn = <<U64(0), U64(0)>> /\ wty = <<"", "">>
NotNamed == [done |-> FALSE, s |-> <<>>]
NameIdle == tn = <<>> /\ tname = NotNamed
NoKeys == <<>>
KeyIdle == kn = {} /\ kkeys = NoKeys

WriterStart ==
    /\ pc = "builder"
    /\ opts = WriterBuilder_new
    /\ wrote_header = FALSE
    /\ wtr = LineWriter_new
    /\ sink = <<>>
    /\ out = <<>>
    /\ files = <<>>
    /\ creates = 0
    /\ call = NoCall
    /\ res = "none"
    /\ ncalls = 0

WriterIdle == WriterStart /\ scope = "none"

Init == WriterStart /\ scope = "calls" /\ LineIdle /\ PackIdle /\ WidthIdle /\ NameIdle /\ KeyIdle
InitTables ==
    WriterStart /\ scope = "tables" /\ LineIdle /\ PackIdle /\ WidthIdle /\ NameIdle /\ KeyIdle

BuilderStep(o) ==
    /\ pc = "builder"
    /\ opts' = o
    /\ o # opts
    /\ UNCHANGED <<pc, wrote_header, wtr, sink, out, files, creates, call, res, ncalls, scope>>
    /\ UNCHANGED <<lineVars, packVars, widthVars, nameVars, keyVars>>

\* WriterBuilder::columns
columns == BuilderStep([opts EXCEPT !.columns = SmallColumns])
\* WriterBuilder::char_literals
char_literals == \E yes \in BOOLEAN : BuilderStep([opts EXCEPT !.char_literals = yes])
\* WriterBuilder::trie_set
builder_trie_set == \E yes \in BOOLEAN : BuilderStep([opts EXCEPT !.trie_set = yes])
\* WriterBuilder::ucd_version
builder_ucd_version == BuilderStep([opts EXCEPT !.ucd_version = TRUE])

Create(o, fs, n) ==
    /\ pc = "builder"
    /\ pc' = "writer"
    /\ opts' = o
    /\ wtr' = LineWriter_new
    /\ wrote_header' = FALSE
    /\ files' = fs
    /\ creates' = n
    /\ UNCHANGED <<sink, out, call, res, ncalls, scope>>
    /\ UNCHANGED <<lineVars, packVars, widthVars, nameVars, keyVars>>

\* WriterBuilder::from_writer
from_writer == Create(opts, files, creates)

\* WriterBuilder::from_fst_dir: the sink is the module's .rs file in fst_dir
from_fst_dir ==
    LET fpath == <<"m", "o", "d", ".", "r", "s">>
    IN Create([opts EXCEPT !.fst_dir = TRUE],
              [n \in (DOMAIN files) \cup {fpath} |-> <<>>], creates + 1)

\* WriterBuilder::from_dfa_dir: the sink is the module's .rs file in dfa_dir
from_dfa_dir ==
    LET fpath == <<"m", "o", "d", ".", "r", "s">>
    IN Create([opts EXCEPT !.dfa_dir = TRUE],
              [n \in (DOMAIN files) \cup {fpath} |-> <<>>], creates + 1)

\* The Writer at the start of a call.
M == [wrote_header |-> wrote_header, wtr |-> wtr, out |-> <<>>,
      files |-> files, creates |-> creates, err |-> "none"]

\* The Writer and the sink when the call returns m, or panics: a panic ends
\* the process.
Return(m, c) ==
    /\ pc = "writer"
    /\ ncalls < (IF scope = "tables" THEN 1 ELSE MaxCalls)
    /\ wrote_header' = m.wrote_header
    /\ wtr' = m.wtr
    /\ out' = m.out
    /\ sink' = Blocks(sink, m.out)
    /\ files' = m.files
    /\ creates' = m.creates
    /\ call' = c
    /\ res' = IF m.err = "none" THEN "ok" ELSE m.err
    /\ ncalls' = ncalls + 1
    /\ pc' = IF m.err \in Panics THEN "aborted" ELSE pc
    /\ UNCHANGED <<opts, scope>>
    /\ UNCHANGED <<lineVars, packVars, widthVars, nameVars, keyVars>>

(***************************************************************************)
(* The inputs of the calls.  In scope "tables" every set and map of the    *)
(* universe; in scope "calls" a few of each.                               *)
(***************************************************************************)
Strs == {<<"a">>, <<"b", "c">>}
StringMaps == UNION {[S -> Strs] : S \in SUBSET Strs}
InnerMaps == {f \in StringMaps : Cardinality(DOMAIN f) <= 1 /\ \A k \in DOMAIN f : f[k] = k}
NestedMaps == UNION {[S -> InnerMaps] : S \in SUBSET Strs}

\* Value lists of a codepoint -> codepoints map: one, two and four values, and
\* a list with the value !0.
ValueLists == {<<U32(1)>>, <<U32(1), U32(0)>>, <<U32(1), U32(1), U32(1), U32(1)>>,
               <<U32Max>>}
ValueSets == {{U32(1)}, {U32(0), U32(1)}, {U32Max}}
MultiKeys == {U32(1), U32(55296)}
MultiMapsTo(V) == UNION {[S -> V] : S \in SUBSET MultiKeys}

One(k, v) == [x \in {k} |-> v]

CodepointSets ==
    IF scope = "tables" THEN SUBSET Codepoints
    ELSE {{}, {U32(0)}, {U32(0), U32(1), U32Max}}
UnsignedMaps ==
    IF scope = "tables" THEN MapsTo(Values)
    ELSE {<<>>, One(U32(0), U64(256))}
StringToStringMaps ==
    IF scope = "tables" THEN StringMaps ELSE {<<>>, One(<<"a">>, <<"a">>)}
StringToStringToStringMaps ==
    IF scope = "tables" THEN NestedMaps ELSE {<<>>, One(<<"a">>, One(<<"a">>, <<"a">>))}
CodepointsMaps ==
    IF scope = "tables" THEN MultiMapsTo(ValueLists)
    ELSE {One(U32(1), <<U32(1)>>), One(U32(1), <<U32(1), U32(1), U32(1), U32(1)>>)}
MultiCodepointMaps ==
    IF scope = "tables" THEN MultiMapsTo(ValueSets) ELSE {One(U32(1), {U32(0), U32(1)})}

\* codepoint -> codepoint maps with a zero destination at any position
CodepointMaps ==
    IF scope = "tables"
    THEN UNION {[S -> {U32(0), U32(1), U32Max}] : S \in SUBSET {U32(0), U32(1), U32(55296)}}
    ELSE {One(U32(1), U32(1)), One(U32(1), U32(0))}
\* the strings of a codepoint -> string map: "", "A", "A\0", and 8 and 9 bytes
MapStrs == {<<>>, <<65>>, <<65, 0>>, [i \in 1 .. 8 |-> 65], [i \in 1 .. 9 |-> 65]}
CodepointStringMaps ==
    IF scope = "tables"
    THEN UNION {[S -> MapStrs] : S \in SUBSET MultiKeys}
    ELSE {One(U32(1), <<65>>), One(U32(1), <<65, 0>>)}

\* size_of::<S>() of the state identifier types: u8, u16, u32, u64 and
\* usize, and 16 for an implementation of StateID of another size
StateIdSizes == IF scope = "tables" THEN {1, 2, 4, 8, 16} ELSE {2, 16}

CallRanges ==
    \E name \in Names, codepoints \in CodepointSets :
        Return(ranges(M, opts, name, codepoints),
               [op |-> "ranges", name |-> name, arg |-> codepoints, flat |-> FALSE])

CallRangesToUnsignedInteger ==
    \E name \in Names, map \in UnsignedMaps :
        Return(ranges_to_unsigned_integer(M, opts, name, map),
               [op |-> "ranges_to_unsigned_integer", name |-> name, arg |-> map, flat |-> FALSE])

CallNames ==
    \E ns \in NameSets :
        Return(names(M, opts, ns),
               [op |-> "names", name |-> <<>>, arg |-> ns, flat |-> FALSE])

CallStringToString ==
    \E name \in Names, map \in StringToStringMaps :
        Return(string_to_string(M, opts, name, map),
               [op |-> "string_to_string", name |-> name, arg |-> map, flat |-> FALSE])

CallStringToStringToString ==
    \E name \in Names, map \in StringToStringToStringMaps :
        Return(string_to_string_to_string(M, opts, name, map),
               [op |-> "string_to_string_to_string", name |-> name, arg |-> map, flat |-> FALSE])

CallCodepointToCodepoints ==
    \E name \in Names, map \in CodepointsMaps, emit_flat_table \in BOOLEAN :
        Return(codepoint_to_codepoints(M, opts, name, map, emit_flat_table),
               [op |-> "codepoint_to_codepoints", name |-> name, arg |-> map,
                flat |-> emit_flat_table])

CallMultiCodepointToCodepoint ==
    \E name \in Names, map \in MultiCodepointMaps, emit_flat_table \in BOOLEAN :
        Return(multi_codepoint_to_codepoint(M, opts, name, map, emit_flat_table),
               [op |-> "multi_codepoint_to_codepoint", name |-> name, arg |-> map,
                flat |-> emit_flat_table])

CallCodepointToCodepointFn ==
    \E name \in Names, map \in CodepointMaps :
        Return(codepoint_to_codepoint_fn(M, opts, name, map),
               [op |-> "codepoint_to_codepoint_fn", name |-> name, arg |-> map,
                flat |-> FALSE])

CallCodepointToString ==
    \E name \in Names, map \in CodepointStringMaps :
        Return(codepoint_to_string(M, opts, name, map),
               [op |-> "codepoint_to_string", name |-> name, arg |-> map, flat |-> FALSE])

CallDenseRegex ==
    \E const_name \in Names, size \in StateIdSizes :
        Return(dense_regex(M, opts, const_name, size),
               [op |-> "dense_regex", name |-> const_name, arg |-> size, flat |-> FALSE])

CallSparseRegex ==
    \E const_name \in Names, size \in StateIdSizes :
        Return(sparse_regex(M, opts, const_name, size),
               [op |-> "sparse_regex", name |-> const_name, arg |-> size, flat |-> FALSE])

CallDenseDfa ==
    \E const_name \in Names, size \in StateIdSizes :
        Return(dense_dfa(M, opts, const_name, size),
               [op |-> "dense_dfa", name |-> const_name, arg |-> size, flat |-> FALSE])

CallSparseDfa ==
    \E const_name \in Names, size \in StateIdSizes :
        Return(sparse_dfa(M, opts, const_name, size),
               [op |-> "sparse_dfa", name |-> const_name, arg |-> size, flat |-> FALSE])

Next ==
    \/ columns
    \/ char_literals
    \/ builder_trie_set
    \/ builder_ucd_version
    \/ from_writer
    \/ from_fst_dir
    \/ from_dfa_dir
    \/ CallNames
    \/ CallRanges
    \/ CallRangesToUnsignedInteger
    \/ CallStringToString
    \/ CallStringToStringToString
    \/ CallCodepointToCodepoints
    \/ CallMultiCodepointToCodepoint
    \/ CallCodepointToCodepointFn
    \/ CallCodepointToString
    \/ CallDenseRegex
    \/ CallSparseRegex
    \/ CallDenseDfa
    \/ CallSparseDfa

\* The steps of SpecTables: the builder's options that change what a table
\* holds, and the calls.
NextTables ==
    \/ char_literals
    \/ builder_trie_set
    \/ from_writer
    \/ from_fst_dir
    \/ from_dfa_dir
    \/ CallNames
    \/ CallRanges
    \/ CallRangesToUnsignedInteger
    \/ CallStringToString
    \/ CallStringToStringToString
    \/ CallCodepointToCodepoints
    \/ CallMultiCodepointToCodepoint
    \/ CallCodepointToCodepointFn
    \/ CallCodepointToString
    \/ CallDenseRegex
    \/ CallSparseRegex
    \/ CallDenseDfa
    \/ CallSparseDfa

Spec == Init /\ [][Next]_vars
SpecTables == InitTables /\ [][NextTables]_vars

(***************************************************************************)
(* SpecLine: one LineWriter, any sequence of its operations.               *)
(***************************************************************************)
\* str::trim_end; the only white space of the model's texts is the blank
RECURSIVE trim_end(_)
trim_end(s) ==
    IF s = <<>> THEN s
    ELSE IF s[Len(s)] = " " THEN trim_end(SubSeq(s, 1, Len(s) - 1)) ELSE s

RECURSIVE Concat(_)
\* the String a pending line is: its tokens' texts one after the other
Concat(line) == IF line = <<>> THEN <<>> ELSE Text(Head(line)) \o Concat(Tail(line))

\* the bytes flush_line writes for a line item, without the final "\n"
Emitted(item) == trim_end(Concat(item.toks))

\* the bytes flush_line writes for a line item: write_all of the trimmed
\* line, then write_all(b"\n")
LineBytes(item) == Emitted(item) \o <<"\n">>

\* A token of n bytes: letters, and ", " at its end as the Writer's tokens
\* have when comma is set.
Token(n, comma) ==
    [k |-> "text",
     txt |-> [i \in 1 .. n |-> IF comma /\ i = n - 1 THEN ","
                               ELSE IF comma /\ i = n THEN " " ELSE "x"]]

\* Tokens shorter than the budget, one byte short of it, of its length and
\* one byte longer.
LineTokens ==
    LET C == LineWriter_new.columns
    IN {Token(3, TRUE), Token(C \div 2, TRUE), Token(C - 1, FALSE),
        Token(C, TRUE), Token(C + 1, FALSE)}

\* the indentations the Writer sets
Indents == {<<" ", " ">>, <<" ", " ", " ", " ">>}

\* the LineWriter as the Writer record the operations take
LM == [wrote_header |-> FALSE, wtr |-> lw, out |-> lsink,
       files |-> <<>>, creates |-> 0, err |-> "none"]

LineReturn(m, op) ==
    /\ lops < MaxLineOps
    /\ lw' = m.wtr
    /\ lsink' = m.out
    /\ lops' = lops + 1
    /\ lhist' = Append(lhist, op)
    /\ UNCHANGED <<writerVars, packVars, widthVars, nameVars, keyVars>>

\* the operation op on its argument a, as lhist keeps it
LineOp(op, a) == [op |-> op, a |-> a]

\* The raw writes are told apart by their number.
LineWriteStr == \E tok \in LineTokens : LineReturn(write_str(LM, tok), LineOp("write_str", tok))
LineIndent == \E s \in Indents : LineReturn(indent(LM, s), LineOp("indent", s))
LineWrite == LineReturn(write(LM, Raw("raw", <<lops>>)), LineOp("write", Raw("raw", <<lops>>)))
LineFlush == LineReturn(flush(LM), LineOp("flush", <<>>))
LineFlushLine == LineReturn(flush_line(LM), LineOp("flush_line", <<>>))

InitLine == WriterIdle /\ LineIdle /\ PackIdle /\ WidthIdle /\ NameIdle /\ KeyIdle

NextLine ==
    \/ LineWriteStr
    \/ LineIndent
    \/ LineWrite
    \/ LineFlush
    \/ LineFlushLine

SpecLine == InitLine /\ [][NextLine]_vars

(***************************************************************************)
(* SpecPack: pack_str on a string, then unpack_str on the value.           *)
(***************************************************************************)
\* The chars of the strings: NUL, 'A' and the two-byte U+00E9.
PackChars == {<<0>>, <<65>>, <<195, 169>>}

RECURSIVE StrsOfChars(_)
\* the strings of at most n chars
StrsOfChars(n) ==
    IF n = 0 THEN {<<>>}
    ELSE LET shorter == StrsOfChars(n - 1)
         IN shorter \cup {s \o c : s \in shorter, c \in PackChars}

PackStrs == {s \in StrsOfChars(MaxStrLen) : Len(s) <= MaxStrLen}

PackStr ==
    /\ packed = NotPacked
    /\ packed' = pack_str(ps)
    /\ UNCHANGED <<ps, unpacked, writerVars, lineVars, widthVars, nameVars, keyVars>>

UnpackStr ==
    /\ packed.k = "ok"
    /\ ~unpacked.done
    /\ unpacked' = [done |-> TRUE, chars |-> unpack_str(packed.v)]
    /\ UNCHANGED <<ps, packed, writerVars, lineVars, widthVars, nameVars, keyVars>>

InitPack ==
    /\ WriterIdle /\ LineIdle /\ WidthIdle /\ NameIdle /\ KeyIdle
    /\ ps \in PackStrs
    /\ packed = NotPacked
    /\ unpacked = NotUnpacked

NextPack ==
    \/ PackStr
    \/ UnpackStr

SpecPack == InitPack /\ [][NextPack]_vars

(***************************************************************************)
(* SpecWidth: smallest_unsigned_type on two numbers.                       *)
(***************************************************************************)
RECURSIVE Plus(_, _)
Plus(a, k) == IF k = 0 THEN a ELSE Plus(Succ(a), k - 1)
RECURSIVE Minus(_, _)
Minus(a, k) == IF k = 0 THEN a ELSE Minus(Pred(a), k - 1)

\* the u64 at most Margin away from b
Near(b) ==
    {x \in {Plus(b, k) : k \in 0 .. Margin} : Le(b, x)}
        \cup {x \in {Minus(b, k) : k \in 0 .. Margin} : Le(x, b)}

WidthInputs ==
    Near(U64(0)) \cup Near(U64(255)) \cup Near(U64(65535))
        \cup Near(AsU64(U32Max)) \cup Near(U64Max)

SmallestUnsignedType ==
    /\ wty = <<"", "">>
    /\ wty' = <<smallest_unsigned_type(wn[1]), smallest_unsigned_type(wn[2])>>
    /\ UNCHANGED <<wn, writerVars, lineVars, packVars, nameVars, keyVars>>

InitWidth ==
    /\ WriterIdle /\ LineIdle /\ PackIdle /\ NameIdle /\ KeyIdle
    /\ wn \in WidthInputs \X WidthInputs
    /\ wty = <<"", "">>

NextWidth == SmallestUnsignedType

SpecWidth == InitWidth /\ [][NextWidth]_vars

(***************************************************************************)
(* SpecKey: u32_key on the codepoints of a set, as ranges and the maps     *)
(* hand them to the fst builder.                                           *)
(***************************************************************************)
\* The codepoints at most Margin away from 0, from the last value of one,
\* two and three bytes, and from the last u32.
KeyInputs ==
    Near(U32(0)) \cup Near(U32(255)) \cup Near(U32(65535))
        \cup Near(<<255, Limb - 1>>) \cup Near(U32Max)

\* codepoints.iter().cloned().map(u32_key)
U32Key ==
    /\ kkeys = NoKeys
    /\ kkeys' = [cp \in kn |-> u32_key(cp)]
    /\ UNCHANGED <<kn, writerVars, lineVars, packVars, widthVars, nameVars>>

InitU32Key ==
    /\ WriterIdle /\ LineIdle /\ PackIdle /\ WidthIdle /\ NameIdle
    /\ kn \in {{a, b} : a \in KeyInputs, b \in KeyInputs}
    /\ kkeys = NoKeys

NextU32Key == U32Key

SpecKey == InitU32Key /\ [][NextU32Key]_vars

(***************************************************************************)
(* SpecName: rust_type_name on a string.                                   *)
(***************************************************************************)
\* The chars of the strings: 'a', 'B', '7', the separators '_', '.', '-',
\* ' ' and '\t', and U+00E9, U+00C9 (e and E with acute).
NameChars == {97, 66, 55, 95, 46, 45, 32, 9, 233, 201}

RECURSIVE NamesOfLen(_)
\* the strings of at most n chars
NamesOfLen(n) ==
    IF n = 0 THEN {<<>>}
    ELSE LET shorter == NamesOfLen(n - 1)
         IN shorter \cup {Append(s, c) : s \in shorter, c \in NameChars}

RustTypeName ==
    /\ ~tname.done
    /\ tname' = [done |-> TRUE, s |-> rust_type_name(tn)]
    /\ UNCHANGED <<tn, writerVars, lineVars, packVars, widthVars, keyVars>>

InitName ==
    /\ WriterIdle /\ LineIdle /\ PackIdle /\ WidthIdle /\ KeyIdle
    /\ tn \in NamesOfLen(MaxNameLen)
    /\ tname = NotNamed

NextName == RustTypeName

SpecName == InitName /\ [][NextName]_vars

(***************************************************************************)
(* Properties.                                                             *)
(***************************************************************************)
\* The errors of a backend that cannot hold the data.
CapabilityErrors ==
    {"cannot emit string->string map as an FST",
     "cannot emit codepoint->codepoints map as an FST",
     "cannot emit codepoint multimaps as an FST"}

\* The operations that refuse the FST backend.
FstRefusing ==
    {"string_to_string", "string_to_string_to_string",
     "multi_codepoint_to_codepoint", "codepoint_to_codepoints"}

HeaderBlocks == Cardinality({i \in DOMAIN sink : sink[i] = "header"})
HeaderFirst(items) == items # <<>> /\ items[1] = Raw("hdr_do_not_edit", <<>>)

\* C1: over any sequence of emission calls on one Writer the sink holds the
\* header once exactly when wrote_header is set and never more than once;
\* nothing precedes the header in the sink; the call that finds the flag
\* unset and gets as far as header() writes the header ahead of its own
\* output and sets the flag; a call that finds it set writes no header
\* line; and the flag, once set, stays set.
C1_HeaderOnce ==
    /\ [](HeaderBlocks = IF wrote_header THEN 1 ELSE 0)
    /\ [](sink # <<>> => sink[1] = "header")
    /\ [][wrote_header => wrote_header']_vars
    /\ [][(ncalls' = ncalls + 1 /\ ~wrote_header /\ res' \notin CapabilityErrors)
            => (wrote_header' /\ HeaderFirst(out'))]_vars
    /\ [][(ncalls' = ncalls + 1 /\ wrote_header)
            => \A i \in DOMAIN out' : BlockOf(out'[i]) = "table"]_vars

\* Two calls made: the first wrote the header, the second table output only.
C1_Witness ==
    /\ ncalls >= 2
    /\ wrote_header
    /\ HeaderBlocks = 1
    /\ res = "ok"
    /\ out # <<>>
    /\ ~HeaderFirst(out)

\* the tokens of the token lines among items, in the order written
RECURSIVE TokensOf(_)
TokensOf(items) ==
    IF items = <<>> THEN <<>>
    ELSE (IF Head(items).k = "line" THEN Tail(Head(items).toks) ELSE <<>>)
         \o TokensOf(Tail(items))

\* the declarations among items
Decls(items, t) == SelectSeq(items, LAMBDA it : it.k = "raw" /\ it.t = t)

UnsignedTypes == {"u8", "u16", "u32", "u64"}
TypeBits(ty) ==
    CASE ty = "u8" -> 8 [] ty = "u16" -> 16 [] ty = "u32" -> 32 [] ty = "u64" -> 64
TypeMax(ty) ==
    CASE ty = "u8" -> U64(255)
      [] ty = "u16" -> U64(65535)
      [] ty = "u32" -> AsU64(U32Max)
      [] ty = "u64" -> U64Max
\* the narrowest unsigned type that holds n
Narrowest(n) ==
    CHOOSE ty \in UnsignedTypes :
        /\ Le(n, TypeMax(ty))
        /\ \A t2 \in UnsignedTypes : Le(n, TypeMax(t2)) => TypeBits(ty) <= TypeBits(t2)

\* C2: for a string ps of at most 8 bytes without a zero byte pack_str
\* returns a value; byte i of ps is bits [8i, 8i+8) of it and the bytes above
\* the string are zero; the bytes unpack_str reads from it, least significant
\* first until the rest is zero, are the bytes of ps (and the String it
\* builds from them is ps when ps is ASCII); "" packs to 0 and unpacks to "".
C2_RoundTrip ==
    LET fits == Len(ps) <= 8 /\ ~ContainsNul(ps)
        ByteAt(v, i) == Low8(Shr(v, i))
    IN /\ (packed # NotPacked /\ fits) => packed.k = "ok"
       /\ packed.k = "ok" =>
            /\ \A i \in 1 .. 8 : ByteAt(packed.v, i - 1) = (IF i <= Len(ps) THEN ps[i] ELSE 0)
            /\ (ps = <<>> => IsZero(packed.v))
       /\ unpacked.done =>
            /\ unpacked.chars = ps
            /\ ((\A i \in 1 .. Len(ps) : ps[i] < 128) => as_bytes(unpacked.chars) = ps)

\* A string of 8 bytes, one char of it of two bytes, packed and unpacked.
C2_Witness ==
    /\ unpacked.done
    /\ Len(ps) = 8
    /\ \E i \in 1 .. Len(ps) : ps[i] = 195
    /\ unpacked.chars = ps

\* C3: pack_str returns the too-long error when ps has more than 8 bytes,
\* the NUL error when it has at most 8 and one of them is zero, and a value
\* for every other ps; the assertion i <= 7 never fails.
C3_ErrorsIff ==
    packed # NotPacked =>
        /\ packed.k # "panic"
        /\ (Len(ps) > 8 => packed = Err("too long"))
        /\ ((Len(ps) <= 8 /\ ContainsNul(ps)) => packed = Err("contains NUL byte"))
        /\ ((Len(ps) <= 8 /\ ~ContainsNul(ps)) => packed.k = "ok")

\* A string of 9 bytes, one of them zero: the length decides.
C3_Witness ==
    /\ Len(ps) = 9
    /\ ContainsNul(ps)
    /\ packed = Err("too long")

\* C4: smallest_unsigned_type(n) is the narrowest of u8, u16, u32, u64 whose
\* maximum is at least n, and for n <= m the type of n is no wider than the
\* type of m.
C4_Narrowest ==
    wty # <<"", "">> =>
        /\ \A i \in 1 .. 2 : wty[i] = Narrowest(wn[i])
        /\ Le(wn[1], wn[2]) => TypeBits(wty[1]) <= TypeBits(wty[2])

\* 2^32 - 1 and 2^32: the last u32 and the first u64.
C4_Witness ==
    /\ wn = <<AsU64(U32Max), Succ(AsU64(U32Max))>>
    /\ wty = <<"u32", "u64">>

\* An integer table written as literals.
IntegerTable ==
    pc = "writer" /\ call.op = "ranges_to_unsigned_integer" /\ ~opts.fst_dir

\* C5: a literal integer table has one declaration; its numeric type is the
\* narrowest that holds the largest value of the map (u8 for the empty map),
\* and every value written in the table fits the declared type.
C5_OneTypeFromMax ==
    IntegerTable =>
        LET decls == Decls(out, "decl_range_values")
            values == {call.arg[k] : k \in DOMAIN call.arg}
            toks == TokensOf(out)
        IN /\ Len(decls) = 1
           /\ decls[1].a[4] = (IF values = {} THEN "u8" ELSE Narrowest(Max(values)))
           /\ \A i \in DOMAIN toks : Le(toks[i].v, TypeMax(decls[1].a[4]))

\* Two runs, 255 then 2^32: the type is that of the later, larger value.
C5_Witness ==
    /\ IntegerTable
    /\ Len(TokensOf(out)) = 2
    /\ TokensOf(out)[1].v = U64(255)
    /\ TokensOf(out)[2].v = <<0, 1, 0, 0>>
    /\ Decls(out, "decl_range_values")[1].a[4] = "u64"

\* x lies in the inclusive run r
InRun(x, r) == Le(r[1], x) /\ Le(x, r[2])

RECURSIVE RunWithin(_, _, _)
\* every codepoint from s to e is in S
RunWithin(s, e, S) == s \in S /\ (s = e \/ RunWithin(Succ(s), e, S \ {s}))

RECURSIVE FirstOfRun(_, _)
\* the least key the keys of f lead down to from x without a gap, by ones
\* and with the value of x
FirstOfRun(x, f) ==
    IF IsZero(x) THEN x
    ELSE IF Pred(x) \in DOMAIN f /\ f[Pred(x)] = f[x] THEN FirstOfRun(Pred(x), f)
    ELSE x

RECURSIVE LastOfRun(_, _)
\* the greatest key they lead up to
LastOfRun(x, f) ==
    IF x = U32Max THEN x
    ELSE IF Succ(x) \in DOMAIN f /\ f[Succ(x)] = f[x] THEN LastOfRun(Succ(x), f)
    ELSE x

\* the runs are in increasing order and do not overlap
RunsSorted(runs) ==
    /\ \A i \in DOMAIN runs : Le(runs[i][1], runs[i][2])
    /\ \A i \in 1 .. (Len(runs) - 1) : Lt(runs[i][2], runs[i + 1][1])

\* no run starts right after the run before it ends
RunsApart(runs) ==
    \A i \in 1 .. (Len(runs) - 1) : runs[i + 1][1] # Succ(runs[i][2])

Covered(x, runs) == \E i \in DOMAIN runs : InRun(x, runs[i])

\* A range table written as literals.
RangeTable ==
    pc = "writer" /\ call.op = "ranges" /\ ~opts.fst_dir /\ ~opts.trie_set

\* The runs the Rust compiler reads from the table of the last call.
EmittedRuns ==
    LET toks == TokensOf(out)
    IN [i \in DOMAIN toks |-> <<LitValue(toks[i].s), LitValue(toks[i].e)>>]

EmittedValueRuns ==
    LET toks == TokensOf(out)
    IN [i \in DOMAIN toks |-> <<LitValue(toks[i].s), LitValue(toks[i].e), toks[i].v>>]

\* k2 is the key next after k1
NextKey(k1, k2, f) ==
    /\ k1 \in DOMAIN f /\ k2 \in DOMAIN f
    /\ Lt(k1, k2)
    /\ ~\E k \in DOMAIN f : Lt(k1, k) /\ Lt(k, k2)

SameRun(k1, k2, runs) == \E i \in DOMAIN runs : InRun(k1, runs[i]) /\ InRun(k2, runs[i])

C8_OnlyLongTokensExceed ==
    \A i \in DOMAIN lsink :
        lsink[i].k = "line" =>
            \/ Len(Emitted(lsink[i])) <= lw.columns
            \/ /\ Len(lsink[i].toks) = 2
               /\ Len(Text(lsink[i].toks[2])) > lw.columns

\* C8: every token line written to the sink has at most columns bytes,
\* except a line of a single token that together with the indentation
\* before it is longer than columns; a line of two or more tokens never is.
C8_LineWithinBudget ==
    \A i \in DOMAIN lsink :
        lsink[i].k = "line" =>
            \/ Len(Emitted(lsink[i])) <= lw.columns
            \/ /\ Len(lsink[i].toks) = 2
               /\ Len(Text(lsink[i].toks[1])) + Len(Text(lsink[i].toks[2])) > lw.columns

\* A line of one token no longer than the budget that exceeds the budget by
\* its indentation, and a line of several tokens.
C8_Witness ==
    /\ \E i \in DOMAIN lsink :
            /\ lsink[i].k = "line"
            /\ Len(lsink[i].toks) = 2
            /\ Len(Text(lsink[i].toks[2])) <= lw.columns
            /\ Len(Emitted(lsink[i])) > lw.columns
    /\ \E i \in DOMAIN lsink : lsink[i].k = "line" /\ Len(lsink[i].toks) > 2

\* C9: a Writer wraps its token lines at the column limit of the builder it
\* was made from: the number given to columns(n), or 79.
C9_ColumnsIsBudget == pc = "writer" => wtr.columns = opts.columns

\* C10: with the FST backend, string_to_string, string_to_string_to_string,
\* multi_codepoint_to_codepoint and codepoint_to_codepoints return their
\* capability error, write nothing to the sink, create no file, and leave
\* the header flag and the LineWriter (pending line, indentation) as they
\* were.
C10_FstRefusedBeforeIO ==
    [][(ncalls' = ncalls + 1 /\ opts.fst_dir /\ call'.op \in FstRefusing) =>
            /\ res' \in CapabilityErrors
            /\ out' = <<>>
            /\ sink' = sink
            /\ files' = files
            /\ creates' = creates
            /\ wrote_header' = wrote_header
            /\ wtr' = wtr]_vars

\* A Writer on an FST directory that has written a set refuses a multimap.
C10_Witness ==
    /\ opts.fst_dir
    /\ ncalls >= 2
    /\ wrote_header
    /\ creates >= 2
    /\ call.op = "multi_codepoint_to_codepoint"
    /\ res = "cannot emit codepoint multimaps as an FST"
    /\ out = <<>>

\* The errors of a value the output cannot hold.
ValueErrors ==
    {"destination codepoint must not be 0", "flat_more_than_3", "flat_padding",
     "too long", "contains NUL byte"}

\* C11: a call that returns the error of a zero destination
\* (codepoint_to_codepoint_fn), of more than 3 values or of a sentinel among
\* the values (flat codepoint_to_codepoints), or of a string that does not
\* pack (codepoint_to_string with the FST backend) has written nothing: the
\* sink and the header flag are as they were before the call.
C11_FailedCallWroteNothing ==
    [][(ncalls' = ncalls + 1 /\ res' \in ValueErrors) =>
            /\ out' = <<>>
            /\ sink' = sink
            /\ wrote_header' = wrote_header]_vars

\* the arms of the match the last call wrote, as <<from, to>>
EmittedArms ==
    LET toks == SelectSeq(TokensOf(out), LAMBDA t : t.k = "arm")
    IN [i \in DOMAIN toks |-> <<toks[i].from, toks[i].to>>]

MatchFn == call.op = "codepoint_to_codepoint_fn"

\* C12: codepoint_to_codepoint_fn returns the error "destination codepoint
\* must not be 0" for every map with a zero destination, wherever the entry
\* is; for every other map it returns success and has written one arm per
\* entry, in key order.
C12_ZeroDestinationRefused ==
    MatchFn =>
        IF \E k \in DOMAIN call.arg : call.arg[k] = U32(0)
        THEN res = "destination codepoint must not be 0"
        ELSE /\ res = "ok"
             /\ EmittedArms = Entries(call.arg)

\* A map of three entries with its zero destination under the last key.
C12_Witness ==
    /\ MatchFn
    /\ DOMAIN call.arg = {U32(0), U32(1), U32(55296)}
    /\ call.arg[U32(0)] = U32(1)
    /\ call.arg[U32(1)] = U32Max
    /\ call.arg[U32(55296)] = U32(0)
    /\ res = "destination codepoint must not be 0"
    /\ Len(EmittedArms) = 2

\* A flat table of codepoint_to_codepoints, not refused for its backend.
FlatTable == call.op = "codepoint_to_codepoints" /\ call.flat /\ ~opts.fst_dir

\* the value that pads a flat row
Sentinel == IF opts.char_literals THEN U32(0) ELSE U32Max

\* cp has a literal in the Writer's style
HasLiteral(cp) == ~opts.char_literals \/ IsScalar(cp)

RECURSIVE RowsOf(_, _)
\* the rows of a table of codepoint_to_codepoints: the texts of the tokens
\* of each row up to its closing "]), ", cur being the row that is read
RowsOf(toks, cur) ==
    IF toks = <<>> THEN <<>>
    ELSE IF Head(toks).txt = <<"]", ")", ",", " ">> THEN <<cur>> \o RowsOf(Tail(toks), <<>>)
    ELSE RowsOf(Tail(toks), Append(cur, Head(toks).txt))

EmittedRows == RowsOf(TokensOf(out), <<>>)

\* the text that opens the flat row of key k, and the text of its entry v
RowOpens(k) == <<"(">> \o LitText(rust_codepoint(opts, k)) \o <<",", " ", "[">>
RowEntry(v) == LitText(rust_codepoint(opts, v)) \o <<",", " ">>

\* row is the flat row of key k: three entries, the values of k in order and
\* then the padding
IsRowOf(row, k) ==
    /\ Len(row) = 4
    /\ row[1] = RowOpens(k)
    /\ \A i \in 1 .. 3 :
            row[i + 1] = RowEntry(IF i <= Len(call.arg[k]) THEN call.arg[k][i] ELSE Sentinel)

\* every row written is the row of a key that has a literal
RowsOfKeys ==
    \A j \in DOMAIN EmittedRows :
        \E k \in DOMAIN call.arg : HasLiteral(k) /\ IsRowOf(EmittedRows[j], k)

\* the statement of C13 for every key and both literal styles
C13_EveryLongListRefused ==
    FlatTable =>
        /\ (\E k \in DOMAIN call.arg : Len(call.arg[k]) > 3) => res # "ok"
        /\ res = "ok" => RowsOfKeys

\* C13: flat emission by codepoint_to_codepoints fails for every map in
\* which a key that has a literal in the Writer's style maps to more than 3
\* values: with u32 literals that is every key, with char literals the keys
\* that are scalar values (an entry whose key is not one is skipped before
\* its values are looked at).  When it succeeds every row written has
\* exactly 3 entries, the values of its key in order and then the padding.
C13_LongListOfWrittenKeyRefused ==
    FlatTable =>
        /\ (\E k \in DOMAIN call.arg : HasLiteral(k) /\ Len(call.arg[k]) > 3)
                => res \in {"flat_more_than_3", "flat_padding"}
        /\ (res = "ok" /\ opts.char_literals) =>
                \A k \in DOMAIN call.arg : Len(call.arg[k]) > 3 => ~IsScalar(k)
        /\ res = "ok" => RowsOfKeys

\* u32 literals: the first key has one value and its row is formatted, the
\* second key has four and the call fails.
C13_Witness ==
    /\ FlatTable
    /\ ~opts.char_literals
    /\ DOMAIN call.arg = {U32(1), U32(55296)}
    /\ call.arg[U32(1)] = <<U32(1)>>
    /\ Len(call.arg[U32(55296)]) = 4
    /\ res = "flat_more_than_3"

\* C14: flat emission by codepoint_to_codepoints with u32 literals fails
\* whenever a value list holds the padding, the all-ones value; and in every
\* flat table written, in either style, the key of each row has no value
\* equal to the padding, so that the entries of the row after the values
\* of the key, and only they, are padding.
C14_SentinelNeverAValue ==
    FlatTable =>
        /\ (~opts.char_literals
              /\ \E k \in DOMAIN call.arg : Contains(call.arg[k], U32Max)) => res # "ok"
        /\ res = "ok" =>
              \A j \in DOMAIN EmittedRows :
                  \E k \in DOMAIN call.arg :
                      /\ IsRowOf(EmittedRows[j], k)
                      /\ ~Contains(call.arg[k], Sentinel)
                      /\ \A i \in 1 .. 3 :
                            (EmittedRows[j][i + 1] = RowEntry(Sentinel))
                                <=> i > Len(call.arg[k])

\* u32 literals: a row of one value and two paddings has been formatted when
\* the all-ones value under the second key makes the call fail.
C14_Witness ==
    /\ FlatTable
    /\ ~opts.char_literals
    /\ DOMAIN call.arg = {U32(1), U32(55296)}
    /\ call.arg[U32(1)] = <<U32(1)>>
    /\ call.arg[U32(55296)] = <<U32Max>>
    /\ res = "flat_padding"

\* C15: with char literals the codepoints a range table leaves out are
\* exactly those of the set that are not scalar values: every scalar value
\* of the set lies in a run written, and no other codepoint of it does.
C15_OnlyNonScalarsDropped ==
    (RangeTable /\ opts.char_literals) =>
        \A x \in call.arg : Covered(x, EmittedRuns) <=> IsScalar(x)

DfaOps == {"dense_dfa", "sparse_dfa", "dense_regex", "sparse_regex"}

\* An automaton export that returned Ok.
Exported == call.op \in DfaOps /\ res = "ok"

EndsWith(s, suffix) ==
    /\ Len(s) >= Len(suffix)
    /\ SubSeq(s, Len(s) - Len(suffix) + 1, Len(s)) = suffix

\* the items of the last call that open the branch of a byte order
BranchAt(order) == {i \in DOMAIN out : out[i] = Raw("cfg_target_endian", <<order>>)}

\* the items of the last call that embed a blob file
Embeds == {i \in DOMAIN out : out[i].k = "raw" /\ out[i].t = "include_bytes"}

\* The item at i embeds a blob in a wrapper `Aligned` whose zero-length
\* field _align has elements of type ty: the declaration of the struct, six
\* items before, gives the alignment of the static the bytes are in.
WrappedAt(i, ty) ==
    /\ i > 8
    /\ out[i - 8] = Raw("repr_c", <<>>)
    /\ out[i - 7] = Raw("struct_aligned", <<>>)
    /\ out[i - 6] = Raw("align_field", <<ty>>)
    /\ out[i - 5] = Raw("bytes_field", <<>>)
    /\ out[i - 2] = Raw("static_aligned", <<>>)
    /\ out[i - 1] = Raw("align_init", <<>>)

\* the unsigned type of size bytes
UintOfSize(size) == CHOOSE ty \in UnsignedTypes : TypeBits(ty) = 8 * size

\* Both branches are written, the big-endian one first, each embeds the
\* blobs of its own byte order only, one per automaton, and every blob is
\* wrapped with the alignment AlignOf.
BranchesFramed(AlignOf) ==
    \E b \in BranchAt("big"), l \in BranchAt("little") :
        /\ BranchAt("big") = {b} /\ BranchAt("little") = {l}
        /\ b < l
        /\ \A i \in Embeds :
              /\ i > b
              /\ WrappedAt(i, AlignOf)
              /\ out[i].a[1] \in DOMAIN files
              /\ IF i < l
                 THEN /\ EndsWith(out[i].a[1], BigEndianDfa)
                      /\ files[out[i].a[1]][4] = "big"
                 ELSE /\ EndsWith(out[i].a[1], LittleEndianDfa)
                      /\ files[out[i].a[1]][4] = "little"
        /\ LET n == IF call.op \in {"dense_regex", "sparse_regex"} THEN 2 ELSE 1
           IN /\ Cardinality({i \in Embeds : i < l}) = n
              /\ Cardinality({i \in Embeds : i > l}) = n

\* the statement of C16 for the four exports
C16_FramedAtStateIdWidth == Exported => BranchesFramed(UintOfSize(call.arg))

\* C16: every automaton export writes a big-endian and a little-endian
\* branch; each branch embeds only the blob files of its own byte order and
\* wraps each in the framing struct.  For dense_dfa and dense_regex the
\* alignment of the wrapper is the state identifier's width (u8, u16, u32
\* or u64 for 1, 2, 4 or 8 bytes); for sparse_dfa and sparse_regex it is
\* one byte (u8) whatever the width.
C16_FramedPerKind ==
    Exported =>
        BranchesFramed(IF call.op \in {"dense_dfa", "dense_regex"}
                       THEN UintOfSize(call.arg) ELSE "u8")

\* A dense regex with 4-byte state identifiers: four blobs, each wrapped
\* with alignment u32.
C16_Witness ==
    /\ Exported
    /\ call.op = "dense_regex"
    /\ call.arg = 4
    /\ Cardinality(Embeds) = 4
    /\ \A i \in Embeds : WrappedAt(i, "u32")

\* C17: no call ends the process, and an export of an automaton whose
\* state identifier is not 1, 2, 4 or 8 bytes wide returns an error.
C17_UnsupportedWidthIsAnError ==
    /\ pc # "aborted"
    /\ (call.op \in DfaOps /\ call.arg \notin {1, 2, 4, 8})
            => (res \notin Panics /\ res # "ok")

\* C18: when a call has returned the LineWriter is as LineWriter::new left
\* it, with an indentation of two blanks and no pending line.
C18_LineStateReset ==
    (pc = "writer" /\ ncalls > 0) =>
        /\ wtr.indent = <<" ", " ">>
        /\ wtr.line = <<>>

\* the set of a codepoint -> string map that pack_str refuses
Unpackable(map) ==
    {k \in DOMAIN map : Len(map[k]) > 8 \/ \E i \in DOMAIN map[k] : map[k][i] = 0}

\* the name of the blob file of the table name
FstFileOf(name) == make_ascii_lowercase(replace(name, ".", "_")) \o <<".", "f", "s", "t">>

\* C19: codepoint_to_string with the FST backend.  When a string of the map
\* does not pack, whichever entry it is in, the call returns pack_str's
\* error, creates no file and writes no loader text: it appends at most
\* the header and the separator.  When every string packs the call
\* succeeds and the blob file of the table holds one entry per key, in key
\* order, the key in big-endian bytes with the packed value of its string.
C19_PackFailureFailsCall ==
    [][(ncalls' = ncalls + 1 /\ call'.op = "codepoint_to_string" /\ opts.fst_dir) =>
            LET map == call'.arg
                kvs == Entries(map)
            IN IF Unpackable(map) # {}
               THEN /\ res' \in {"too long", "contains NUL byte"}
                    /\ files' = files
                    /\ creates' = creates
                    /\ \A i \in DOMAIN out' :
                            out'[i].k = "raw" /\ out'[i].t \in HeaderTags \cup {"separator"}
               ELSE /\ res' = "ok"
                    /\ creates' = creates + 1
                    /\ FstFileOf(call'.name) \in DOMAIN files'
                    /\ LET entries == files'[FstFileOf(call'.name)]
                       IN /\ Len(entries) = Len(kvs)
                          /\ \A i \in DOMAIN kvs :
                                /\ entries[i][1] = u32_key(kvs[i][1])
                                /\ unpack_str(entries[i][2]) = kvs[i][2]
                    /\ Len(Decls(out', "fst_include_bytes")) = 1]_vars

\* Two entries, the second with a string of 9 bytes: the call has failed
\* and the only file is the module's source file.
C19_Witness ==
    /\ opts.fst_dir
    /\ call.op = "codepoint_to_string"
    /\ DOMAIN call.arg = {U32(1), U32(55296)}
    /\ call.arg[U32(1)] = <<65>>
    /\ Len(call.arg[U32(55296)]) = 9
    /\ res = "too long"
    /\ Cardinality(DOMAIN files) = 1
    /\ creates = 1

\* the char of the model's universe in upper case and in ASCII lower case
UpperOf(c) == CASE c = 97 -> 65 [] c = 233 -> 201 [] OTHER -> c
AsciiLowerOf(c) == CASE c = 66 -> 98 [] OTHER -> c

\* the indices of the chars of s that are not separators, in order
Kept(s) == SelectSeq([i \in 1 .. Len(s) |-> i], LAMBDA i : ~IsSeparator(s[i]))

RECURSIVE SinkWrites(_)
\* What the items of the sink hold, in order: the tokens of each token line
\* without its indentation, and each raw write.
SinkWrites(items) ==
    IF items = <<>> THEN <<>>
    ELSE (IF Head(items).k = "line" THEN Tail(Head(items).toks) ELSE <<Head(items)>>)
             \o SinkWrites(Tail(items))

\* the tokens of the pending line, without its indentation
PendingWrites == IF lw.line = <<>> THEN <<>> ELSE Tail(lw.line)

RECURSIVE IssuedWrites(_)
\* the arguments of the write_str and write operations made, in order
IssuedWrites(hist) ==
    IF hist = <<>> THEN <<>>
    ELSE (IF Head(hist).op \in {"write_str", "write"} THEN <<Head(hist).a>> ELSE <<>>)
             \o IssuedWrites(Tail(hist))

\* C21: whatever the order of token writes and raw writes, the sink holds
\* the tokens and the raw writes in the order they were issued, the tokens
\* still pending being the last ones issued; when a raw write returns
\* nothing is pending, so every token written before it is in the sink
\* before it.
C21_WritesInIssueOrder ==
    /\ SinkWrites(lsink) \o PendingWrites = IssuedWrites(lhist)
    /\ (lhist # <<>> /\ lhist[Len(lhist)].op = "write") =>
            /\ lw.line = <<>>
            /\ lsink # <<>>
            /\ lsink[Len(lsink)] = lhist[Len(lhist)].a

\* Token, raw write, token, raw write: two token lines in the sink, each
\* before the raw write that followed it.
C21_Witness ==
    /\ Len(lhist) = 4
    /\ lhist[1].op = "write_str" /\ lhist[2].op = "write"
    /\ lhist[3].op = "write_str" /\ lhist[4].op = "write"
    /\ Len(lsink) = 4
    /\ lsink[1].k = "line" /\ lsink[1].toks[2] = lhist[1].a
    /\ lsink[2] = lhist[2].a
    /\ lsink[3].k = "line" /\ lsink[3].toks[2] = lhist[3].a
    /\ lsink[4] = lhist[4].a

\* the step is a flush_line, called as such or through io::Write::flush
IsFlushLineStep ==
    /\ lhist' = Append(lhist, lhist'[Len(lhist')])
    /\ lhist'[Len(lhist')].op \in {"flush_line", "flush"}

\* b is the string s without its trailing white space
IsTrimmed(b, s) ==
    /\ Len(b) <= Len(s)
    /\ SubSeq(s, 1, Len(b)) = b
    /\ b = <<>> \/ b[Len(b)] # " "
    /\ \A i \in (Len(b) + 1) .. Len(s) : s[i] = " "

\* C22: flush_line on an empty pending line writes nothing and leaves the
\* LineWriter as it was.  On a non-empty pending line it writes one thing,
\* the line without its trailing white space and then one newline, and
\* leaves the pending line empty, the indentation and the budget as they
\* were.
C22_FlushLine ==
    [][IsFlushLineStep =>
          IF lw.line = <<>>
          THEN lsink' = lsink /\ lw' = lw
          ELSE /\ Len(lsink') = Len(lsink) + 1
               /\ SubSeq(lsink', 1, Len(lsink)) = lsink
               /\ LET item == lsink'[Len(lsink')]
                      bytes == LineBytes(item)
                  IN /\ item.k = "line"
                     /\ bytes[Len(bytes)] = "\n"
                     /\ \A i \in 1 .. (Len(bytes) - 1) : bytes[i] # "\n"
                     /\ IsTrimmed(SubSeq(bytes, 1, Len(bytes) - 1), Concat(lw.line))
               /\ lw' = [lw EXCEPT !.line = <<>>]]_vars

\* A token that ends in a blank was written, then flush_line twice: the
\* first wrote the line without the blank, the second wrote nothing.
C22_Witness ==
    /\ Len(lhist) = 3
    /\ lhist[1].op = "write_str"
    /\ lhist[1].a.txt[Len(lhist[1].a.txt)] = " "
    /\ lhist[2].op = "flush_line"
    /\ lhist[3].op = "flush_line"
    /\ Len(lsink) = 1
    /\ Len(LineBytes(lsink[1])) = Len(lw.indent) + Len(lhist[1].a.txt)
    /\ lw.line = <<>>

\* the token lines so far: those of the sink, then the pending one
TokenLines ==
    LET written == SelectSeq(lsink, LAMBDA it : it.k = "line")
    IN IF lw.line = <<>> THEN written
       ELSE Append(written, [k |-> "line", toks |-> lw.line])

RECURSIVE TokensBefore(_, _)
\* the number of tokens of the lines before the j-th
TokensBefore(lines, j) ==
    IF j <= 1 THEN 0
    ELSE TokensBefore(lines, j - 1) + Len(lines[j - 1].toks) - 1

\* the place in hist of its n-th write_str
WriteStrAt(hist, n) ==
    LET P == {i \in DOMAIN hist : hist[i].op = "write_str"}
    IN CHOOSE i \in P : Cardinality({j \in P : j <= i}) = n

\* the indentation in force at the i-th operation of hist: the argument of
\* the last indent before it, or the one LineWriter::new sets
IndentInForce(hist, i) ==
    LET I == {j \in 1 .. (i - 1) : hist[j].op = "indent"}
    IN IF I = {} THEN LineWriter_new.indent
       ELSE hist[CHOOSE j \in I : \A k \in I : k <= j].a

\* the arguments of the write_str operations made, in order
IssuedTokens(hist) ==
    LET ws == SelectSeq(hist, LAMBDA o : o.op = "write_str")
    IN [i \in DOMAIN ws |-> ws[i].a]

\* C23: after any sequence of operations every token line, written or
\* pending, is one indentation followed by one or more tokens as they were
\* given to write_str; the indentation is the one in force when the line's
\* first token was written; the tokens of the lines, read in order, are
\* the tokens written, each once and in the order of the writes.  (The
\* bytes of a written line are this text as flush_line writes it.)
C23_LinesOfWholeTokens ==
    LET lines == TokenLines
    IN /\ \A j \in DOMAIN lines :
            LET toks == lines[j].toks
            IN /\ Len(toks) >= 2
               /\ toks[1].k = "indent"
               /\ \A i \in 2 .. Len(toks) : toks[i].k # "indent"
               /\ toks[1].txt =
                    IndentInForce(lhist, WriteStrAt(lhist, TokensBefore(lines, j) + 1))
       /\ TokensOf(lines) = IssuedTokens(lhist)

\* A line was started with two blanks, the indentation was then set to four
\* and a second token joined the line: the line written has the two blanks
\* once, then both tokens.
C23_Witness ==
    /\ Len(lhist) = 4
    /\ lhist[1].op = "write_str"
    /\ lhist[2].op = "indent" /\ lhist[2].a = <<" ", " ", " ", " ">>
    /\ lhist[3].op = "write_str"
    /\ lhist[4].op = "flush_line"
    /\ Len(lsink) = 1
    /\ lsink[1].toks = <<[k |-> "indent", txt |-> <<" ", " ">>], lhist[1].a, lhist[3].a>>
    /\ Concat(lsink[1].toks) = <<" ", " ">> \o lhist[1].a.txt \o lhist[3].a.txt

\* the keys in the order in which the set's iteration hands them to the fst
\* builder
KeysFed == LET cps == Sorted(kn) IN [i \in DOMAIN cps |-> kkeys[cps[i]]]

\* the u32 whose big-endian bytes are key
KeyValue(key) == <<(key[1] * 256) + key[2], (key[3] * 256) + key[4]>>

\* C24: a key is four bytes; of two codepoints the smaller has the key
\* that is smaller in the byte-wise lexicographic order, and two different
\* codepoints have different keys (a key gives its codepoint back); so
\* the keys handed to the fst builder in the set's iteration order are
\* strictly increasing.
C24_KeysKeepTheOrder ==
    kkeys # NoKeys =>
        /\ \A a \in kn :
                /\ Len(kkeys[a]) = 4
                /\ \A i \in 1 .. 4 : kkeys[a][i] \in 0 .. 255
                /\ KeyValue(kkeys[a]) = a
        /\ \A a, b \in kn :
                /\ Lt(a, b) => LexLess(kkeys[a], kkeys[b])
                /\ a # b => kkeys[a] # kkeys[b]
        /\ \A i \in 1 .. (Len(KeysFed) - 1) : LexLess(KeysFed[i], KeysFed[i + 1])

\* 0x0000FFFF and 0x00010000: the smaller has the greater low bytes, and
\* its key 00 00 FF FF is fed before 00 01 00 00.
C24_Witness ==
    /\ kn = {U32(65535), <<1, 0>>}
    /\ kkeys # NoKeys
    /\ KeysFed = <<<<0, 0, 255, 255>>, <<0, 1, 0, 0>>>>

\* the declarations of a codepoint set among items, one per encoding
SetDecls(items) ==
    SelectSeq(items, LAMBDA it :
        it.k = "raw" /\ it.t \in {"fst_static", "decl_trie", "decl_ranges"})

\* the declaration with which ranges encodes a set under the options o
PathOf(o) == IF o.fst_dir THEN "fst_static"
             ELSE IF o.trie_set THEN "decl_trie" ELSE "decl_ranges"

\* the step is a call of ranges
IsRangesStep == ncalls' = ncalls + 1 /\ call'.op = "ranges"

\* the step is a call of ranges right after a call of names, both Ok
IsRangesAfterNames ==
    IsRangesStep /\ res' = "ok" /\ ncalls > 0 /\ call.op = "names" /\ res = "ok"

\* C25: a call of ranges writes declarations of one encoding only, the one
\* its options select (the fst set with an fst directory, else the trie
\* with trie_set, else the range table), exactly one when it returns Ok,
\* and creates a file only for the fst set; and the element type that a
\* call of names has declared for BY_NAME on the same Writer is the type
\* ranges declares for its item.
C25_OnePathTypedAsNames ==
    [][/\ IsRangesStep =>
            LET ds == SetDecls(out')
            IN /\ \A i \in DOMAIN ds : ds[i].t = PathOf(opts)
               /\ res' = "ok" => Len(ds) = 1
               /\ creates' = creates + (IF opts.fst_dir /\ res' = "ok" THEN 1 ELSE 0)
       /\ IsRangesAfterNames =>
            LET ds == SetDecls(out')
                by_name == Decls(out, "decl_by_name")
            IN /\ Len(by_name) = 1
               /\ Len(ds) = 1
               /\ by_name[1].a[1] = DeclaredType(ds[1])]_vars

====
